---- MODULE Spec2Model ----
(***************************************************************************)
(* Verification model of contour-generator.                                *)
(*                                                                         *)
(* Part 1 (specification Spec): the orchestrator of entry-point.ts: the    *)
(* command handlers runPyramid / runZoom / runBbox, the bounded scheduler  *)
(* processTilesInParallel with its then/catch/finally chain per tile, the  *)
(* worker processes spawned by processTile, and createMetadata.  The Node  *)
(* event loop is modelled explicitly: worker events are macrotasks that    *)
(* run only when the microtask queue is empty, promise reactions are       *)
(* entries of a FIFO microtask queue.                                      *)
(***************************************************************************)
EXTENDS Integers, Sequences, FiniteSets, TLC

\* ---- bounds of the model ----
MaxTiles == 3
MaxProcesses == 2
MaxUnwind == 3

\* Promise hops between the throw in runZoom/runBbox and main().catch:
\* the awaits of the action handler and of main (entry-point.ts 489-497).
MinUnwind == 2

VARIABLES
  mode,            \* "pyramid" | "zoom" | "bbox": the sub-command
  encodingOk,      \* options.encoding is "mapbox" or "terrarium"
  totalTiles,      \* coordinates.length
  maxProcesses,    \* options.processes
  mainPc,          \* "start" | "awaiting" | "done" | "exited"
  exitCode,        \* -1 while the process lives, else its exit code
  currentIndex,    \* processTilesInParallel: cursor over coordinates
  completedCount,  \* processTilesInParallel: tiles whose then-handler ran
  activeWorkers,   \* processTilesInParallel: array of tile promises (ids)
  outcome,         \* the promise processTilesInParallel returns
  tile,            \* per tile: state of the promise processTile returned
  worker,          \* per tile: state of the spawned child process
  finalized,       \* tiles whose finally-handler ran
  failOrder,       \* history: tiles in the order their promise rejected
  microtasks,      \* FIFO queue of pending promise reactions
  unwound,         \* rejection hops taken on the way to main().catch
  metadataWrites,  \* number of times createMetadata wrote metadata.json
  fIn,             \* call: the inputs of one adapter or calculation call
  fCall,           \* call: the function that was called
  fOut,            \* call: what the call returned or raised
  jDemUrl,         \* job: the --demUrl option, a sequence of characters
  jBackend,        \* job: "pmtiles" | "mbtiles" | "url", from demUrl
  jSrc,            \* job: the formats the source declares
  jTiles,          \* job: children.length, the number of descendants
  jBatchSize,      \* job: batchSize of processQueue
  files,           \* job: descendants whose .pbf file exists
  jInitialFiles,   \* history: files when the job started
  jobPc,           \* job: "init" | "ready" | "batch" | "done" | "failed"
  jExit,           \* job: -1 while the process lives, else its exit code
  jCrash,          \* history: what ended the job with a failure
  jI,              \* job: loop variable i of processQueue
  pt,              \* job: per descendant, the progress of processTile
  jLogged,         \* job: descendants logged by "Error processing tile"
  jDirPending      \* job: the callback of mkdir(outputDir) has not run yet

schedVars == <<mode, encodingOk, totalTiles, maxProcesses, mainPc, exitCode,
               currentIndex, completedCount, activeWorkers, outcome, tile,
               worker, finalized, failOrder, microtasks, unwound,
               metadataWrites>>

fetchVars == <<fIn, fCall, fOut>>

jobVars == <<jDemUrl, jBackend, jSrc, jTiles, jBatchSize, files, jInitialFiles, jobPc,
             jExit, jCrash, jI, pt, jLogged, jDirPending>>

vars == <<schedVars, fetchVars, jobVars>>

Tiles == 1..MaxTiles
Modes == {"pyramid", "zoom", "bbox"}

\* ---- promise primitives ----

\* resolve() of the scheduler promise: a settled promise ignores it.
Resolve(o) ==
  IF o.state = "pending" THEN [state |-> "resolved", error |-> 0] ELSE o

\* Mutant of Reject: the catch-handler only logs and forgets reject(error).
RejectForgotten(o, e) == o

\* reject(error) of the scheduler promise: a settled promise ignores it.
Reject(o, e) ==
  IF o.state = "pending" THEN [state |-> "rejected", error |-> e] ELSE o

\* Settling the scheduler promise queues the reaction of its one consumer
\* (the promise of the async function processTilesInParallel adopts it).
SettleReaction(old, new) ==
  IF old.state = "pending" /\ new.state # "pending"
  THEN <<[k |-> "adopt", t |-> 0]>> ELSE <<>>

\* ---- processTile (orchestrator side) ----

\* processTile(tileOptions): validateEncoding throws before spawn, so the
\* returned promise is rejected and no process exists; otherwise a child
\* process is spawned and the promise is pending.
processTile(s, i) ==
  IF encodingOk
  THEN [s EXCEPT !.tile[i] = "pending", !.worker[i] = "running"]
  ELSE [s EXCEPT !.tile[i] = "rejected",
                 !.failOrder = Append(@, i)]

\* ---- processTilesInParallel ----

\* Mutant of CanStart: off-by-one on the limit (<= instead of <).
CanStartOffByOne(s) ==
  s.currentIndex < totalTiles /\ Len(s.activeWorkers) <= maxProcesses

\* Mutant of CanStart: one slot is never used (< maxProcesses - 1).
CanStartOneSlotShort(s) ==
  s.currentIndex < totalTiles /\ Len(s.activeWorkers) < maxProcesses - 1

\* Mutant of CanStart: the limit is raised to at least one slot.
CanStartAtLeastOne(s) ==
  /\ s.currentIndex < totalTiles
  /\ Len(s.activeWorkers) < (IF maxProcesses < 1 THEN 1 ELSE maxProcesses)

\* Loop condition of scheduleNextTile: tiles left and a free slot.
CanStart(s) ==
  s.currentIndex < totalTiles /\ Len(s.activeWorkers) < maxProcesses

\* Mutant of AllDone: completion is tested on the cursor alone.
AllDoneCursorOnly(s) == s.currentIndex >= totalTiles

\* Mutant of AllDone: off by one on the cursor (> instead of >=).
AllDoneOffByOne(s) ==
  s.currentIndex > totalTiles /\ Len(s.activeWorkers) = 0

\* Completion test of scheduleNextTile.
AllDone(s) ==
  s.currentIndex >= totalTiles /\ Len(s.activeWorkers) = 0

\* Mutant of StartTile: currentIndex++ is left out of the loop body.
StartTileNoAdvance(s) ==
  LET i  == s.currentIndex + 1
      s1 == processTile(s, i)
  IN  [s1 EXCEPT !.activeWorkers = Append(@, i),
                 !.microtasks = IF s1.tile[i] = "pending" THEN @
                                ELSE Append(@, [k |-> "then", t |-> i])]

\* One iteration of the while loop: currentIndex++, call processTile, attach
\* .then/.catch/.finally, push the chained promise.  A tile promise that is
\* already rejected queues its first reaction at once.
StartTile(s) ==
  LET i  == s.currentIndex + 1
      s1 == processTile([s EXCEPT !.currentIndex = i], i)
  IN  [s1 EXCEPT !.activeWorkers = Append(@, i),
                 !.microtasks = IF s1.tile[i] = "pending" THEN @
                                ELSE Append(@, [k |-> "then", t |-> i])]

RECURSIVE ScheduleLoop(_)
ScheduleLoop(s) == IF CanStart(s) THEN ScheduleLoop(StartTile(s)) ELSE s

scheduleNextTile(s) ==
  IF AllDone(s)
  THEN [s EXCEPT !.outcome = Resolve(@),
                 !.microtasks = @ \o SettleReaction(s.outcome, Resolve(s.outcome))]
  ELSE ScheduleLoop(s)

\* activeWorkers.splice(activeWorkers.indexOf(p), 1)
RECURSIVE Splice(_, _)
Splice(seq, i) ==
  IF seq = <<>> THEN <<>>
  ELSE IF Head(seq) = i THEN Tail(seq)
  ELSE <<Head(seq)>> \o Splice(Tail(seq), i)

\* The part of the state the scheduler's closures work on.
Sched ==
  [currentIndex |-> currentIndex, activeWorkers |-> activeWorkers,
   outcome |-> outcome, tile |-> tile, worker |-> worker,
   failOrder |-> failOrder, microtasks |-> microtasks]

Install(s) ==
  /\ currentIndex' = s.currentIndex
  /\ activeWorkers' = s.activeWorkers
  /\ outcome' = s.outcome
  /\ tile' = s.tile
  /\ worker' = s.worker
  /\ failOrder' = s.failOrder
  /\ microtasks' = s.microtasks

Inputs == <<mode, encodingOk, totalTiles, maxProcesses>>

\* ---- initial state: the command line has been parsed ----
SchedInit ==
  /\ mode \in Modes
  /\ encodingOk \in BOOLEAN
  \* --processes <number>: Number(value); 0 and negative values are taken
  \* as they are, and NaN compares like them (every < with it is false)
  /\ maxProcesses \in (-1)..MaxProcesses
  /\ totalTiles \in 0..MaxTiles
  /\ mode = "pyramid" => totalTiles = 1 /\ maxProcesses = 1
  /\ mode = "zoom" => totalTiles >= 1
  /\ mainPc = "start"
  /\ exitCode = -1
  /\ currentIndex = 0
  /\ completedCount = 0
  /\ activeWorkers = <<>>
  /\ outcome = [state |-> "pending", error |-> 0]
  /\ tile = [i \in Tiles |-> "none"]
  /\ worker = [i \in Tiles |-> "none"]
  /\ finalized = {}
  /\ failOrder = <<>>
  /\ microtasks = <<>>
  /\ unwound = 0
  /\ metadataWrites = 0

\* The orchestrator is not part of the run.
SchedOff ==
  /\ mode = "off" /\ encodingOk = TRUE /\ totalTiles = 0 /\ maxProcesses = 0
  /\ mainPc = "off" /\ exitCode = -1 /\ currentIndex = 0
  /\ completedCount = 0 /\ activeWorkers = <<>>
  /\ outcome = [state |-> "pending", error |-> 0]
  /\ tile = [i \in Tiles |-> "none"] /\ worker = [i \in Tiles |-> "none"]
  /\ finalized = {} /\ failOrder = <<>> /\ microtasks = <<>>
  /\ unwound = 0 /\ metadataWrites = 0

Alive == mainPc = "awaiting"

\* ---- command handlers up to their first await ----

\* runPyramid: await processTile(options).
RunPyramid ==
  /\ UNCHANGED <<fetchVars, jobVars>>
  /\ mainPc = "start" /\ mode = "pyramid"
  /\ LET s == processTile(Sched, 1)
     IN Install([s EXCEPT !.microtasks =
                   IF s.tile[1] = "pending" THEN @
                   ELSE Append(@, [k |-> "resume", t |-> 0])])
  /\ mainPc' = "awaiting"
  /\ UNCHANGED <<Inputs, exitCode, completedCount, finalized, unwound,
                 metadataWrites>>

\* runZoom / runBbox: await processTilesInParallel(coordinates, ...).
\* An empty list returns at once; otherwise the first scheduleNextTile().
RunBatch ==
  /\ UNCHANGED <<fetchVars, jobVars>>
  /\ mainPc = "start" /\ mode # "pyramid"
  /\ IF totalTiles = 0
     THEN Install([Sched EXCEPT !.microtasks =
                     Append(@, [k |-> "resume", t |-> 0])])
     ELSE Install(scheduleNextTile(Sched))
  /\ mainPc' = "awaiting"
  /\ UNCHANGED <<Inputs, exitCode, completedCount, finalized, unwound,
                 metadataWrites>>

\* ---- worker process events (macrotasks) ----

\* Reaction queued when the promise of processTile settles: the .then of
\* the scheduler chain, or in pyramid mode the await of runPyramid.
TileReaction(i) ==
  IF mode = "pyramid" THEN [k |-> "resume", t |-> 0]
  ELSE [k |-> "then", t |-> i]

\* Mutant of ExitedCleanly: the close handler takes every code as success.
ExitedCleanlyAlways(code) == TRUE

\* Mutant of ExitedCleanly: every exit code that is not negative resolves.
ExitedCleanlyNonNegative(code) == code >= 0

\* if (code === 0) resolve() else reject(...)
ExitedCleanly(code) == code = 0

\* workerProcess.on("close", code): code 0 resolves, any other rejects.
WorkerClose(i, code) ==
  /\ UNCHANGED <<fetchVars, jobVars>>
  /\ Alive /\ microtasks = <<>>
  /\ worker[i] = "running"
  /\ worker' = [worker EXCEPT ![i] = "closed"]
  /\ tile' = [tile EXCEPT ![i] = IF ExitedCleanly(code) THEN "fulfilled"
                                 ELSE "rejected"]
  /\ failOrder' = IF ExitedCleanly(code) THEN failOrder
                  ELSE Append(failOrder, i)
  /\ microtasks' = <<TileReaction(i)>>
  /\ UNCHANGED <<Inputs, mainPc, exitCode, currentIndex, completedCount,
                 activeWorkers, outcome, finalized, unwound, metadataWrites>>

\* workerProcess.on("error"): the process could not be started.
WorkerError(i) ==
  /\ UNCHANGED <<fetchVars, jobVars>>
  /\ Alive /\ microtasks = <<>>
  /\ worker[i] = "running"
  /\ worker' = [worker EXCEPT ![i] = "failedToStart"]
  /\ tile' = [tile EXCEPT ![i] = "rejected"]
  /\ failOrder' = Append(failOrder, i)
  /\ microtasks' = <<TileReaction(i)>>
  /\ UNCHANGED <<Inputs, mainPc, exitCode, currentIndex, completedCount,
                 activeWorkers, outcome, finalized, unwound, metadataWrites>>

\* ---- promise reactions of one tile (microtasks) ----

HeadIs(kind) == microtasks # <<>> /\ Head(microtasks).k = kind

\* .then(() => completedCount++): runs on fulfilment, passes a rejection on.
TileThen ==
  /\ UNCHANGED <<fetchVars, jobVars>>
  /\ Alive /\ HeadIs("then")
  /\ LET i == Head(microtasks).t
     IN /\ completedCount' = IF tile[i] = "fulfilled" THEN completedCount + 1
                             ELSE completedCount
        /\ microtasks' = Append(Tail(microtasks), [k |-> "catch", t |-> i])
  /\ UNCHANGED <<Inputs, mainPc, exitCode, currentIndex, activeWorkers,
                 outcome, tile, worker, finalized, failOrder, unwound,
                 metadataWrites>>

\* .catch((error) => reject(error)): runs on rejection only.  reject()
\* queues the caller's reaction before the handler returns, so it is ahead
\* of this tile's finally in the queue.
TileCatch ==
  /\ UNCHANGED <<fetchVars, jobVars>>
  /\ Alive /\ HeadIs("catch")
  /\ LET i   == Head(microtasks).t
         new == IF tile[i] = "rejected" THEN Reject(outcome, i) ELSE outcome
     IN /\ outcome' = new
        /\ microtasks' = (Tail(microtasks) \o SettleReaction(outcome, new))
                           \o <<[k |-> "finally", t |-> i]>>
  /\ UNCHANGED <<Inputs, mainPc, exitCode, currentIndex, completedCount,
                 activeWorkers, tile, worker, finalized, failOrder, unwound,
                 metadataWrites>>

\* .finally(): remove the tile from activeWorkers, then scheduleNextTile().
TileFinally ==
  /\ UNCHANGED <<fetchVars, jobVars>>
  /\ Alive /\ HeadIs("finally")
  /\ LET i == Head(microtasks).t
         s == [Sched EXCEPT !.activeWorkers = Splice(@, i),
                            !.microtasks = Tail(@)]
     IN /\ Install(scheduleNextTile(s))
        /\ finalized' = finalized \cup {i}
  /\ UNCHANGED <<Inputs, mainPc, exitCode, completedCount, unwound,
                 metadataWrites>>

\* ---- the caller's continuation (microtasks) ----

\* The promise of the async function processTilesInParallel adopts the
\* state of the promise it returned; the await of runZoom/runBbox follows.
MainAdopt ==
  /\ UNCHANGED <<fetchVars, jobVars>>
  /\ Alive /\ HeadIs("adopt")
  /\ microtasks' = Append(Tail(microtasks), [k |-> "resume", t |-> 0])
  /\ UNCHANGED <<Inputs, mainPc, exitCode, currentIndex, completedCount,
                 activeWorkers, outcome, tile, worker, finalized, failOrder,
                 unwound, metadataWrites>>

\* Mutant of Awaited: the early return on an empty list is not seen as a
\* completion; only the scheduler's own promise is looked at.
AwaitedSchedulerOnly ==
  IF mode = "pyramid"
  THEN (IF tile[1] = "fulfilled" THEN "resolved" ELSE "rejected")
  ELSE outcome.state

\* What the await of the command handler sees.
Awaited ==
  IF mode = "pyramid"
  THEN (IF tile[1] = "fulfilled" THEN "resolved" ELSE "rejected")
  ELSE (IF totalTiles = 0 THEN "resolved" ELSE outcome.state)

\* Mutant of WritesMetadata: createMetadata sits in a finally block.
WritesMetadataAlways(awaited) == TRUE

\* The command handler writes the manifest after a successful await.
WritesMetadata(awaited) == awaited = "resolved"

\* The command handler resumes after its await: createMetadata on success,
\* the rejection is thrown on failure.
MainResume ==
  /\ UNCHANGED <<fetchVars, jobVars>>
  /\ Alive /\ HeadIs("resume")
  /\ IF WritesMetadata(Awaited)
     THEN /\ metadataWrites' = metadataWrites + 1
          /\ mainPc' = "done"
          /\ exitCode' = 0
          /\ microtasks' = Tail(microtasks)
     ELSE /\ microtasks' = Append(Tail(microtasks), [k |-> "unwind", t |-> 0])
          /\ UNCHANGED <<metadataWrites, mainPc, exitCode>>
  /\ UNCHANGED <<Inputs, currentIndex, completedCount, activeWorkers, outcome,
                 tile, worker, finalized, failOrder, unwound>>

\* One more promise hop of the rejection on its way up (action handler,
\* commander's parseAsync, main).
MainUnwind ==
  /\ UNCHANGED <<fetchVars, jobVars>>
  /\ Alive /\ HeadIs("unwind")
  /\ unwound < MaxUnwind
  /\ unwound' = unwound + 1
  /\ microtasks' = Append(Tail(microtasks), [k |-> "unwind", t |-> 0])
  /\ UNCHANGED <<Inputs, mainPc, exitCode, currentIndex, completedCount,
                 activeWorkers, outcome, tile, worker, finalized, failOrder,
                 metadataWrites>>

\* main().catch: process.exit(1).  Nothing of this process runs afterwards.
MainCatch ==
  /\ UNCHANGED <<fetchVars, jobVars>>
  /\ Alive /\ HeadIs("unwind")
  /\ unwound >= MinUnwind
  /\ mainPc' = "exited"
  /\ exitCode' = 1
  /\ UNCHANGED <<Inputs, currentIndex, completedCount, activeWorkers, outcome,
                 tile, worker, finalized, failOrder, microtasks, unwound,
                 metadataWrites>>


\* Nothing is left to run while main() is still awaiting: no reaction is
\* queued and no worker process is alive.  The event loop is empty, so the
\* process ends by itself, with exit code 0.
LoopDrained ==
  /\ UNCHANGED <<fetchVars, jobVars>>
  /\ Alive /\ microtasks = <<>>
  /\ \A i \in Tiles : worker[i] # "running"
  /\ mainPc' = "exited"
  /\ exitCode' = 0
  /\ UNCHANGED <<Inputs, currentIndex, completedCount, activeWorkers, outcome,
                 tile, worker, finalized, failOrder, microtasks, unwound,
                 metadataWrites>>

\* ======================================================================
\* Part 2 (specification FetchSpec): the DEM source adapters as functions
\* of what the store answers: getPMtilesTile, getMBTilesTile, and the
\* fetchers pmtilesFetcher / mbtilesFetcher of the pyramid job.
\* ======================================================================

NaN == -1

\* Strings are sequences of one-character strings.
DecimalDigits == <<"0", "1", "2", "3", "4", "5", "6", "7", "8", "9">>

IsDigit(c) == \E d \in 1..10 : DecimalDigits[d] = c

DigitValue(c) == (CHOOSE d \in 1..10 : DecimalDigits[d] = c) - 1

\* String.prototype.lastIndexOf(c): 0-based, -1 when c does not occur.
lastIndexOf(s, c) ==
  IF \E i \in 1..Len(s) : s[i] = c
  THEN (CHOOSE i \in 1..Len(s) :
          s[i] = c /\ \A j \in (i + 1)..Len(s) : s[j] # c) - 1
  ELSE -1

\* String.prototype.indexOf(c): 0-based, -1 when c does not occur.
indexOf(s, c) ==
  IF \E i \in 1..Len(s) : s[i] = c
  THEN (CHOOSE i \in 1..Len(s) :
          s[i] = c /\ \A j \in 1..(i - 1) : s[j] # c) - 1
  ELSE -1

\* String.prototype.substring(start, end): 0-based, end exclusive.
substring(s, start, end) == SubSeq(s, start + 1, end)

\* String.prototype.split(sep) for a one-character separator.
RECURSIVE split(_, _)
split(s, sep) ==
  LET k == indexOf(s, sep)
  IN IF k = -1 THEN <<s>>
     ELSE <<substring(s, 0, k)>> \o split(substring(s, k + 1, Len(s)), sep)

\* The result of parseInt that isNaN recognises.
NotANumber == [nan |-> TRUE, value |-> 0]

isNaN(r) == r.nan

RECURSIVE TrimStart(_)
\* leading white space is skipped by parseInt
TrimStart(s) ==
  IF s # <<>> /\ Head(s) = " " THEN TrimStart(Tail(s)) ELSE s

RECURSIVE LeadingDigits(_, _)
\* The value of the longest prefix of decimal digits, acc being the value of
\* the digits read so far.
LeadingDigits(s, acc) ==
  IF s # <<>> /\ IsDigit(Head(s))
  THEN LeadingDigits(Tail(s), 10 * acc + DigitValue(Head(s)))
  ELSE acc

\* parseInt(segment, 10): white space, an optional sign, then the longest
\* prefix of digits; what follows the digits is ignored, and a segment
\* without such a prefix gives NaN.
ParseInt(segment) ==
  LET t      == TrimStart(segment)
      signed == t # <<>> /\ Head(t) \in {"+", "-"}
      digits == IF signed THEN Tail(t) ELSE t
  IN IF digits = <<>> \/ ~IsDigit(Head(digits)) THEN NotANumber
     ELSE [nan |-> FALSE,
           value |-> IF signed /\ Head(t) = "-"
                     THEN 0 - LeadingDigits(digits, 0)
                     ELSE LeadingDigits(digits, 0)]

\* lastDotIndex === -1 ? ySegment : ySegment.substring(0, lastDotIndex)
StripExtension(ySegment) ==
  LET lastDotIndex == lastIndexOf(ySegment, ".")
  IN IF lastDotIndex = -1 THEN ySegment
     ELSE substring(ySegment, 0, lastDotIndex)

Null == [nul |-> TRUE]

\* extractZXYFromUrlTrim(url)
extractZXYFromUrlTrim(url) ==
  IF lastIndexOf(url, "/") = -1 THEN Null
  ELSE LET segments == split(url, "/") IN
    IF Len(segments) <= 3 THEN Null
    ELSE LET n == Len(segments)
             z == ParseInt(segments[n - 2])
             x == ParseInt(segments[n - 1])
             y == ParseInt(StripExtension(segments[n]))
         IN IF isNaN(z) \/ isNaN(x) \/ isNaN(y) THEN Null
            ELSE [nul |-> FALSE, z |-> z.value, x |-> x.value, y |-> y.value]

\* The urls the fetchers are called with in the fetch specification:
\* "/1/0/1", "/1/0/1.png", "/tiles/1/0/1.png", "1/0/1", "/a/0/1",
\* "/1/0/a.png", "tile"
Urls == { <<"/", "1", "/", "0", "/", "1">>,
          <<"/", "1", "/", "0", "/", "1", ".", "p", "n", "g">>,
          <<"/", "t", "i", "l", "e", "s", "/", "1", "/", "0", "/", "1",
            ".", "p", "n", "g">>,
          <<"1", "/", "0", "/", "1">>,
          <<"/", "a", "/", "0", "/", "1">>,
          <<"/", "1", "/", "0", "/", "a", ".", "p", "n", "g">>,
          <<"t", "i", "l", "e">> }

\* The url the contour library asks the fetcher of a job for: "/1/0/1",
\* demUrlPattern "/{z}/{x}/{y}" filled in for a tile.
JobTileUrl == <<"/", "1", "/", "0", "/", "1">>

\* extractZXYFromUrlTrim at the urls the fetchers are called with, worked
\* out once.
ZxyOfUrl == [url \in Urls \cup {JobTileUrl} |-> extractZXYFromUrlTrim(url)]

\* getPmtilesMimeTypeFromTypeNum(header.tileType)
getPmtilesMimeTypeFromTypeNum(n) ==
  CASE n = 1 -> "application/x-protobuf"
    [] n = 2 -> "image/png"
    [] n = 3 -> "image/jpeg"
    [] n = 4 -> "image/webp"
    [] n = 5 -> "image/avif"
    [] OTHER -> "application/octet-stream"

\* `image/${format}`
ImageMime(fmt) ==
  CASE fmt = "png" -> "image/png"
    [] fmt = "jpeg" -> "image/jpeg"
    [] fmt = "webp" -> "image/webp"
    [] fmt = "jpg" -> "image/jpg"
    [] OTHER -> "image/pbf"

\* mime.split('/')[1]
Subtype(mime) ==
  CASE mime = "application/x-protobuf" -> "x-protobuf"
    [] mime = "image/png" -> "png"
    [] mime = "image/jpeg" -> "jpeg"
    [] mime = "image/webp" -> "webp"
    [] mime = "image/avif" -> "avif"
    [] mime = "image/jpg" -> "jpg"
    [] mime = "image/pbf" -> "pbf"
    [] OTHER -> "octet-stream"

\* What the archive answers to getHeader() + getZxy(z, x, y).
ArchiveAnswers == {"tile", "noEntry", "headerError", "readError"}

\* What the tile database answers to getTile(z, x, y, callback).
DbAnswers == {"row", "noData", "errNotExist", "errNoSuchRow", "errOther",
              "errNoMessage"}

\* Mutant of getPMtilesTile: no try/catch, an archive error propagates.
getPMtilesTileUncaught(ans, tileType) ==
  CASE ans = "tile" ->
         [kind |-> "ok", data |-> TRUE,
          mimeType |-> getPmtilesMimeTypeFromTypeNum(tileType)]
    [] ans = "noEntry" ->
         [kind |-> "ok", data |-> FALSE,
          mimeType |-> getPmtilesMimeTypeFromTypeNum(tileType)]
    [] OTHER -> [kind |-> "raise", why |-> ans]

\* getPMtilesTile: every error is caught and answered with no data.
getPMtilesTile(ans, tileType) ==
  CASE ans = "tile" ->
         [kind |-> "ok", data |-> TRUE,
          mimeType |-> getPmtilesMimeTypeFromTypeNum(tileType)]
    [] ans = "noEntry" ->
         [kind |-> "ok", data |-> FALSE,
          mimeType |-> getPmtilesMimeTypeFromTypeNum(tileType)]
    [] OTHER -> [kind |-> "ok", data |-> FALSE, mimeType |-> "undefined"]

Absent == [kind |-> "ok", data |-> FALSE, contentType |-> "undefined"]

\* Mutant of IsNotFoundError: only the first of the two messages is tested.
IsNotFoundErrorFirstOnly(ans) == ans = "errNotExist"

\* err.message.includes("Tile does not exist") || includes("no such row")
IsNotFoundError(ans) == ans \in {"errNotExist", "errNoSuchRow"}

\* getMBTilesTile, callback form: a not-found error and a missing tileData
\* resolve to absent, any other error rejects.
getMBTilesTile(ans) ==
  CASE IsNotFoundError(ans) -> Absent
    [] ans \in {"errOther", "errNoMessage"} -> [kind |-> "raise", why |-> ans]
    [] ans = "noData" -> Absent
    [] OTHER -> [kind |-> "ok", data |-> TRUE, contentType |-> "Content-Type"]

\* getMBTilesTile, promisified form: the promise resolves with the first
\* callback value (the tile Buffer), whose .data is undefined; an error
\* without a message makes error.message.includes itself throw.
getMBTilesTilePromisified(ans) ==
  CASE ans \in {"row", "noData"} -> Absent
    [] IsNotFoundError(ans) -> Absent
    [] OTHER -> [kind |-> "raise", why |-> ans]

\* createBlankTileImage: the image codec encodes the formats of the declared
\* parameter type; what it does with another format name is the codec's.
createBlankTileImageOk(fmt, codecAccepts) ==
  fmt \in {"png", "webp", "jpeg"} \/ codecAccepts

Raise(why) == [kind |-> "raise", why |-> why]

\* Tests `if (!pmtilesSource)` / `if (!mbtilesSource)` of the fetchers.
SourceMissing(init) == ~init

\* pmtilesFetcher(url)
pmtilesFetcher(in) ==
  IF SourceMissing(in.init) THEN Raise("not initialized")
  ELSE LET zxy == ZxyOfUrl[in.url] IN
    IF zxy.nul THEN Raise("no zxy")
    ELSE LET r == getPMtilesTile(in.archive, in.tileType) IN
      IF r.kind = "raise" THEN r      \* a rejection of the await propagates
      ELSE IF ~r.data
      THEN LET sourceMimeType == IF r.mimeType # "undefined" THEN r.mimeType
                                 ELSE ImageMime(in.blankTileFormat)
               formatForBlank == Subtype(sourceMimeType)
           IN IF createBlankTileImageOk(formatForBlank, in.codecAccepts)
              THEN [kind |-> "blank", mimeType |-> sourceMimeType,
                    format |-> formatForBlank]
              ELSE Raise("blank tile")
      ELSE [kind |-> "data", mimeType |-> r.mimeType, format |-> "source"]

\* The rethrow of the catch block of mbtilesFetcher.
Rethrow(why) == Raise(why)

\* mbtilesFetcher(url)
mbtilesFetcher(in) ==
  IF SourceMissing(in.init) THEN Raise("not initialized")
  ELSE LET zxy == ZxyOfUrl[in.url] IN
    IF zxy.nul THEN Raise("no zxy")
    ELSE LET t == getMBTilesTile(in.db)
             sourceFormat == IF in.dbFormat # "none" THEN in.dbFormat
                             ELSE in.blankTileFormat
         IN IF t.kind = "raise"
            THEN Rethrow(t.why)       \* neither message matches: throw error
            ELSE IF ~t.data
            THEN IF createBlankTileImageOk(sourceFormat, in.codecAccepts)
                 THEN [kind |-> "blank", mimeType |-> ImageMime(sourceFormat),
                       format |-> sourceFormat]
                 ELSE Raise("blank tile")
            ELSE [kind |-> "data", mimeType |-> t.contentType,
                  format |-> "source"]

\* ---- inputs of the fetch specification ----
TileTypes == 0..5
DbFormats == {"none", "png", "jpg", "webp", "pbf"}
BlankTileFormats == {"png", "webp", "jpeg"}

FetchInputs ==
  [backend : {"pmtiles", "mbtiles"}, init : BOOLEAN, url : Urls,
   archive : ArchiveAnswers, tileType : TileTypes, db : DbAnswers,
   dbFormat : DbFormats, blankTileFormat : BlankTileFormats,
   codecAccepts : BOOLEAN]

FetchInit ==
  /\ fIn \in FetchInputs
  /\ fIn.backend = "pmtiles" => fIn.db = "row" /\ fIn.dbFormat = "none"
  /\ fIn.backend = "mbtiles" => fIn.archive = "tile" /\ fIn.tileType = 2
  /\ fCall = "none"
  /\ fOut = [kind |-> "none"]

FetchOff ==
  /\ fIn = [backend |-> "off"]
  /\ fCall = "off"
  /\ fOut = [kind |-> "off"]

CallPmtilesFetcher ==
  /\ fCall = "none" /\ fIn.backend = "pmtiles"
  /\ fCall' = "pmtilesFetcher"
  /\ fOut' = pmtilesFetcher(fIn)
  /\ UNCHANGED <<fIn, schedVars, jobVars>>

CallMbtilesFetcher ==
  /\ fCall = "none" /\ fIn.backend = "mbtiles"
  /\ fCall' = "mbtilesFetcher"
  /\ fOut' = mbtilesFetcher(fIn)
  /\ UNCHANGED <<fIn, schedVars, jobVars>>

CallGetMBTilesTile ==
  /\ fCall = "none" /\ fIn.backend = "mbtiles" /\ fIn.init
  /\ fCall' = "getMBTilesTile"
  /\ fOut' = getMBTilesTile(fIn.db)
  /\ UNCHANGED <<fIn, schedVars, jobVars>>

CallGetMBTilesTilePromisified ==
  /\ fCall = "none" /\ fIn.backend = "mbtiles" /\ fIn.init
  /\ fCall' = "getMBTilesTilePromisified"
  /\ fOut' = getMBTilesTilePromisified(fIn.db)
  /\ UNCHANGED <<fIn, schedVars, jobVars>>

FetchNext ==
  \/ CallPmtilesFetcher
  \/ CallMbtilesFetcher
  \/ CallGetMBTilesTile
  \/ CallGetMBTilesTilePromisified


\* ======================================================================
\* Part 3 (specification JobSpec): one pyramid job, the child process
\* generate-contour-tile-pyramid: initializeSources, processQueue in
\* batches, processTile per descendant.  The descendants are numbered
\* 1..jTiles in the sorted order of the queue.  fetchContourTile of the
\* contour library is followed through the calls it makes back into this
\* repository (the fetcher, GetImageData) and its own contour step; the
\* source tiles one output tile needs are taken as one fetch.
\* ======================================================================

\* ---- bounds of the job model ----
MaxJobTiles == 2
SmallBatch == 1

\* processQueue(queue, batchSize = 25)
DefaultBatchSize == 25

JobTiles == 1..MaxJobTiles

UrlAnswers == {"ok", "notFound", "networkError"}

\* The answers that mean "the source has no tile at this coordinate".
AbsentAnswers == {"noEntry", "errNotExist", "errNoSuchRow", "noData",
                  "notFound", "networkError"}

StoreAnswers(backend) ==
  CASE backend = "pmtiles" -> ArchiveAnswers
    [] backend = "mbtiles" -> DbAnswers
    [] OTHER -> UrlAnswers

\* The declared formats of the job's source drawn for the job model.
JobSources ==
  { [tileType |-> 2, dbFormat |-> "none", codecAccepts |-> FALSE],
    [tileType |-> 0, dbFormat |-> "pbf", codecAccepts |-> FALSE] }

\* initializeSources, URL-template branch: currentFetcher = undefined, so
\* the contour library fetches the url itself.  No code of this repository
\* runs on its answer: a good response gives the data, on any other answer
\* the library either raises or carries on by its own means.
libraryFetch(ans, libraryRaises) ==
  IF ans = "ok" THEN [kind |-> "data", mimeType |-> "response", format |-> "source"]
  ELSE IF libraryRaises THEN Raise(ans)
  ELSE [kind |-> "library", mimeType |-> "none", format |-> "none"]

\* getTile of the DEM manager: currentFetcher as initializeSources set it.
currentFetcher(backend, src, ans, libraryRaises) ==
  LET in == [backend |-> backend, init |-> TRUE, url |-> JobTileUrl,
             archive |-> ans, tileType |-> src.tileType, db |-> ans,
             dbFormat |-> src.dbFormat, blankTileFormat |-> "png",
             codecAccepts |-> src.codecAccepts]
  IN CASE backend = "pmtiles" -> pmtilesFetcher(in)
       [] backend = "mbtiles" -> mbtilesFetcher(in)
       [] OTHER -> libraryFetch(ans, libraryRaises)

\* ---- the DEM URL and the backend it selects ----

\* DEM URLs of the model, as sequences of characters.
ArchiveUrl == <<"p", "m", "t", "i", "l", "e", "s", ":", "/", "/", "/", "a">>
ArchiveUrlUpper == <<"P", "M", "T", "i", "l", "e", "s", ":", "/", "/", "/", "a">>
DatabaseUrl == <<"m", "b", "t", "i", "l", "e", "s", ":", "/", "/", "/", "a">>
DatabaseUrlUpper == <<"M", "B", "T", "I", "L", "E", "S", ":", "/", "/", "/", "a">>
TemplateUrl == <<"h", "t", "t", "p", "s", ":", "/", "/", "h", "/", "{", "z", "}">>
\* the archive prefix, but not at the start of the URL
UnanchoredUrl == <<"/", "p", "m", "t", "i", "l", "e", "s", ":", "/", "/", "a">>

DemUrls == {ArchiveUrl, ArchiveUrlUpper, DatabaseUrl, DatabaseUrlUpper,
            TemplateUrl, UnanchoredUrl}

\* Mutant of ToLower: the flag i of the testers is dropped.
ToLowerIdentity(c) == c

\* The flag i of the two regular expressions: letters match in any case.
ToLower(c) ==
  CASE c = "P" -> "p" [] c = "M" -> "m" [] c = "T" -> "t" [] c = "I" -> "i"
    [] c = "L" -> "l" [] c = "E" -> "e" [] c = "S" -> "s" [] c = "B" -> "b"
    [] OTHER -> c

\* A regular expression /^prefix/i tested on a URL.
StartsWithIgnoreCase(url, prefix) ==
  /\ Len(url) >= Len(prefix)
  /\ \A i \in 1..Len(prefix) : ToLower(url[i]) = prefix[i]

\* pmtilesTester = /^pmtiles:\/\//i
pmtilesTester(url) ==
  StartsWithIgnoreCase(url, <<"p", "m", "t", "i", "l", "e", "s", ":", "/", "/">>)

\* mbtilesTester = /^mbtiles:\/\//i
mbtilesTester(url) ==
  StartsWithIgnoreCase(url, <<"m", "b", "t", "i", "l", "e", "s", ":", "/", "/">>)

\* The branch initializeSources takes for a DEM URL.
selectBackend(url) ==
  IF pmtilesTester(url) THEN "pmtiles"
  ELSE IF mbtilesTester(url) THEN "mbtiles"
  ELSE "url"

\* Mutant of ShouldSkip: processTile without the existsSync test.
ShouldSkipNever(i, fs) == FALSE

\* processTile: if (existsSync(filePath)) return Promise.resolve();
ShouldSkip(i, fs) == i \in fs

\* Mutant of CatchesError: the catch block covers the write step only.
CatchesWriteErrorsOnly(cause) == cause = "mkdir"

\* processTile: the try block spans fetchContourTile and the mkdir promise,
\* its catch logs the error and returns.
CatchesError(cause) == cause \in {"fetch", "decode", "engine", "mkdir"}

NewTile ==
  [st |-> "queued", src |-> "none", blank |-> FALSE, fetches |-> 0,
   engine |-> 0, writes |-> 0, cause |-> "none"]

\* Mutant of Batch: queue.slice(i), the end of the slice is left out.
BatchToEnd == {i \in 1..jTiles : jI < i}

\* queue.slice(i, i + batchSize), as tile numbers
Batch == {i \in 1..jTiles : jI < i /\ i <= jI + jBatchSize}

Settled(i) == pt[i].st \in {"skipped", "written", "failed"}

JobInit ==
  /\ jDemUrl \in DemUrls
  /\ jBackend = "unselected"
  /\ jSrc \in JobSources
  \* a URL template has no header or metadata declaring a format
  /\ (selectBackend(jDemUrl) = "url") => jSrc.tileType = 2
  /\ jTiles \in 1..MaxJobTiles
  /\ jBatchSize \in {SmallBatch, DefaultBatchSize}
  /\ files \in SUBSET (1..jTiles)
  /\ jInitialFiles = files
  /\ jobPc = "init"
  /\ jExit = -1
  /\ jCrash = "none"
  /\ jI = 0
  /\ pt = [i \in JobTiles |-> NewTile]
  /\ jLogged = {}
  \* if (!existsSync(outputDir)) mkdir(outputDir, ..., callback)
  /\ jDirPending \in BOOLEAN
  /\ jDirPending => files = {}

JobOff ==
  /\ jDemUrl = <<>> /\ jBackend = "off" /\ jSrc = [tileType |-> 2] /\ jTiles = 0
  /\ jBatchSize = 0 /\ files = {} /\ jInitialFiles = {} /\ jobPc = "off"
  /\ jExit = -1 /\ jCrash = "none" /\ jI = 0
  /\ pt = [i \in JobTiles |-> NewTile] /\ jLogged = {}
  /\ jDirPending = FALSE

JobInputs == <<jDemUrl, jSrc, jTiles, jBatchSize, jInitialFiles>>

\* The callback of mkdir(outputDir): on an error it ends the process with
\* exit code 1, whatever the queue is doing.
OutputDirCallback(err) ==
  /\ jobPc \in {"ready", "batch"} /\ jDirPending
  /\ jDirPending' = FALSE
  /\ IF err
     THEN jobPc' = "failed" /\ jExit' = 1 /\ jCrash' = "outputDir"
     ELSE UNCHANGED <<jobPc, jExit, jCrash>>
  /\ UNCHANGED <<JobInputs, jBackend, files, jI, pt, jLogged, schedVars, fetchVars>>

\* await initializeSources(): the archive or database is opened; a missing
\* or unopenable source ends the process with exit code 1.
InitializeSources(ok) ==
  /\ jobPc = "init"
  /\ jBackend' = selectBackend(jDemUrl)
  /\ (selectBackend(jDemUrl) = "url") => ok
  /\ IF ok
     THEN jobPc' = "ready" /\ UNCHANGED <<jExit, jCrash>>
     ELSE jobPc' = "failed" /\ jExit' = 1 /\ jCrash' = "open"
  /\ UNCHANGED <<JobInputs, files, jI, pt, jLogged, jDirPending, schedVars, fetchVars>>

\* Mutant of SourcesAwaited: initializeSources() is called without await,
\* so the queue may start while the source is still being opened.
SourcesNotAwaited == jobPc \in {"init", "ready"}

\* await initializeSources() precedes everything the job does with tiles.
SourcesAwaited == jobPc = "ready"

\* processQueue, one loop iteration up to its await: batch.map(processTile)
\* runs the synchronous head of processTile for every tile of the batch.
ProcessBatch ==
  /\ SourcesAwaited /\ jI < jTiles
  /\ pt' = [i \in JobTiles |->
              IF i \in Batch
              THEN IF ShouldSkip(i, files)
                   THEN [pt[i] EXCEPT !.st = "skipped"]
                   ELSE [pt[i] EXCEPT !.st = "fetching"]
              ELSE pt[i]]
  /\ jobPc' = "batch"
  /\ UNCHANGED <<JobInputs, jBackend, files, jI, jExit, jCrash, jLogged, jDirPending,
                 schedVars, fetchVars>>

\* An error thrown inside the try block of processTile.
TileError(i, cause, tileRec) ==
  IF CatchesError(cause)
  THEN /\ pt' = [pt EXCEPT ![i] = [tileRec EXCEPT !.st = "failed",
                                                  !.cause = cause]]
       /\ jLogged' = jLogged \cup {i}
       /\ UNCHANGED <<jobPc, jExit, jCrash>>
  ELSE \* Promise.all rejects, processQueue rejects, main's catch exits
       /\ pt' = [pt EXCEPT ![i] = [tileRec EXCEPT !.st = "failed",
                                                  !.cause = cause]]
       /\ jobPc' = "failed" /\ jExit' = 1 /\ jCrash' = "tile"
       /\ UNCHANGED jLogged

\* The source answers the fetch of tile i.
FetchReturns(i, ans, libraryRaises) ==
  /\ jobPc = "batch" /\ pt[i].st = "fetching"
  /\ ans \in StoreAnswers(jBackend)
  /\ (jBackend # "url" \/ ans = "ok") => libraryRaises
  /\ LET r == currentFetcher(jBackend, jSrc, ans, libraryRaises)
         t == [pt[i] EXCEPT !.src = ans, !.fetches = @ + 1,
                            !.blank = (r.kind = "blank")]
     IN IF r.kind = "raise"
        THEN TileError(i, "fetch", t)
        ELSE /\ pt' = [pt EXCEPT ![i] = [t EXCEPT !.st = "contouring"]]
             /\ UNCHANGED <<jobPc, jExit, jCrash, jLogged>>
  /\ UNCHANGED <<JobInputs, jBackend, files, jI, jDirPending, schedVars, fetchVars>>

\* GetImageData decodes the tile, then the Contour Engine is invoked.
ContourReturns(i, res) ==
  /\ jobPc = "batch" /\ pt[i].st = "contouring"
  /\ res \in {"ok", "decodeError", "engineError"}
  /\ LET t == [pt[i] EXCEPT !.engine = IF res = "decodeError" THEN @ ELSE @ + 1]
     IN CASE res = "decodeError" -> TileError(i, "decode", t)
          [] res = "engineError" -> TileError(i, "engine", t)
          [] OTHER -> /\ pt' = [pt EXCEPT ![i] = [t EXCEPT !.st = "mkdir"]]
                      /\ UNCHANGED <<jobPc, jExit, jCrash, jLogged>>
  /\ UNCHANGED <<JobInputs, jBackend, files, jI, jDirPending, schedVars, fetchVars>>

\* The callback of mkdir(dirPath): an error rejects the promise inside the
\* try block; otherwise writeFileSync runs in the callback, where a throw
\* is an uncaught exception of the process.
MkdirReturns(i, res) ==
  /\ jobPc = "batch" /\ pt[i].st = "mkdir"
  /\ res \in {"ok", "mkdirError", "writeThrows"}
  /\ CASE res = "ok" ->
            /\ pt' = [pt EXCEPT ![i] = [@ EXCEPT !.st = "written",
                                                 !.writes = @ + 1]]
            /\ files' = files \cup {i}
            /\ UNCHANGED <<jobPc, jExit, jCrash, jLogged>>
       [] res = "mkdirError" ->
            /\ TileError(i, "mkdir", pt[i])
            /\ UNCHANGED files
       [] OTHER ->
            /\ pt' = [pt EXCEPT ![i] = [@ EXCEPT !.st = "failed",
                                                 !.cause = "write"]]
            /\ jobPc' = "failed" /\ jExit' = 1 /\ jCrash' = "write"
            /\ UNCHANGED <<files, jLogged>>
  /\ UNCHANGED <<JobInputs, jBackend, jI, jDirPending, schedVars, fetchVars>>

\* Promise.all over promises that never reject: every tile has settled.
PromiseAll == \A i \in Batch : Settled(i)

\* await Promise.all(batch.map(processTile)) returns: i += batchSize.
BatchComplete ==
  /\ jobPc = "batch"
  /\ PromiseAll
  /\ jI' = jI + jBatchSize
  /\ jobPc' = "ready"
  /\ UNCHANGED <<JobInputs, jBackend, files, jExit, jCrash, pt, jLogged, jDirPending,
                 schedVars, fetchVars>>

\* The loop of processQueue ends; the process ends with exit code 0.
QueueDone ==
  /\ jobPc = "ready" /\ jI >= jTiles
  /\ ~jDirPending
  /\ jobPc' = "done"
  /\ jExit' = 0
  /\ UNCHANGED <<JobInputs, jBackend, files, jI, jCrash, pt, jLogged, jDirPending,
                 schedVars, fetchVars>>

JobNext ==
  \/ \E ok \in BOOLEAN : InitializeSources(ok)
  \/ \E err \in BOOLEAN : OutputDirCallback(err)
  \/ ProcessBatch
  \/ \E i \in JobTiles, ans \in AbsentAnswers \cup {"ok", "tile", "row",
        "headerError", "readError", "errOther", "errNoMessage"},
        b \in BOOLEAN : FetchReturns(i, ans, b)
  \/ \E i \in JobTiles, res \in {"ok", "decodeError", "engineError"} :
        ContourReturns(i, res)
  \/ \E i \in JobTiles, res \in {"ok", "mkdirError", "writeThrows"} :
        MkdirReturns(i, res)
  \/ BatchComplete
  \/ QueueDone

JobStart == JobInit /\ SchedOff /\ FetchOff

JobSpec == JobStart /\ [][JobNext]_vars

\* ======================================================================
\* Part 4 (specification CalcSpec): the pure calculations, each applied
\* once to an input drawn from bounded sets: getAllTiles and the sort of
\* the pyramid job, the coordinate list of runZoom, createBlankTileImage
\* and getOptionsForZoom.  The call variables fIn / fCall / fOut hold the
\* input, the function applied and its result.
\* ======================================================================

\* ---- bounds of the tile lists ----
MaxRootZoom == 1
MaxDepth == 2
MaxZoomLevel == 2

RECURSIVE Pow(_, _)
\* Math.pow(b, n) for a natural n
Pow(b, n) == IF n <= 0 THEN 1 ELSE b * Pow(b, n - 1)

\* A Tile is [x, y, z]: t[1] = x, t[2] = y, t[3] = z.
\* getChildren of the tile library, as getAllTiles calls it.
getChildren(t) ==
  << <<t[1] * 2, t[2] * 2, t[3] + 1>>,
     <<t[1] * 2 + 1, t[2] * 2, t[3] + 1>>,
     <<t[1] * 2 + 1, t[2] * 2 + 1, t[3] + 1>>,
     <<t[1] * 2, t[2] * 2 + 1, t[3] + 1>> >>

\* Mutant of WithinMaxZoom: the deepest zoom level is left out.
WithinMaxZoomStrict(child, outputMaxZoom) == child[3] < outputMaxZoom

\* Mutant of WithinMaxZoom: one level below the deepest zoom is let through.
WithinMaxZoomOneDeeper(child, outputMaxZoom) == child[3] <= outputMaxZoom + 1

\* .filter((child) => child[2] <= outputMaxZoom)
WithinMaxZoom(child, outputMaxZoom) == child[3] <= outputMaxZoom

RECURSIVE getTileList(_, _)
\* getTileList(currentTile): what one call appends to allTiles.  The list
\* only grows at its end: first the children within maxZoom, then, child
\* by child in order, what the call for that child appends.
getTileList(currentTile, outputMaxZoom) ==
  LET children == SelectSeq(getChildren(currentTile),
                            LAMBDA c : WithinMaxZoom(c, outputMaxZoom))
      \* if (childZoom < outputMaxZoom) getTileList(childTile)
      Below(k) == IF k <= Len(children) /\ children[k][3] < outputMaxZoom
                  THEN getTileList(children[k], outputMaxZoom)
                  ELSE <<>>
  IN children \o Below(1) \o Below(2) \o Below(3) \o Below(4)

\* getAllTiles(tile, outputMaxZoom)
getAllTiles(rootTile, outputMaxZoom) ==
  <<rootTile>> \o getTileList(rootTile, outputMaxZoom)

\* Mutant of compareTiles: the zoom is not compared.
compareTilesNoZoom(a, b) ==
  IF a[1] # b[1] THEN a[1] - b[1] ELSE a[2] - b[2]

\* The comparator of children.sort: zoom, then x, then y.
compareTiles(a, b) ==
  IF a[3] # b[3] THEN a[3] - b[3]
  ELSE IF a[1] # b[1] THEN a[1] - b[1]
  ELSE a[2] - b[2]

\* The place of element i in the sorted list: behind every element the
\* comparator puts before it and, among equals, behind the earlier ones.
SortedPlace(list, i) ==
  1 + Cardinality({j \in 1..Len(list) :
                     \/ compareTiles(list[j], list[i]) < 0
                     \/ compareTiles(list[j], list[i]) = 0 /\ j < i})

\* children.sort(comparator): a stable sort by the comparator.
sortChildren(list) ==
  [k \in 1..Len(list) |->
     list[CHOOSE i \in 1..Len(list) : SortedPlace(list, i) = k]]

\* Mutant of tilesInDimension: the exponent taken as a factor.
tilesInDimensionDouble(zoom) == 2 * zoom

\* const tilesInDimension = Math.pow(2, options.outputMinZoom)
tilesInDimension(zoom) == Pow(2, zoom)

\* runZoom: for y, for x: coordinates.push([zoom, x, y])
runZoomCoordinates(zoom) ==
  LET n == tilesInDimension(zoom)
  IN [k \in 1..(n * n) |-> <<zoom, (k - 1) % n, (k - 1) \div n>>]

\* The root of the example of the documentation: 9/272/179, maxZoom 11.
ExampleRoot == [kind |-> "tiles", root |-> <<272, 179, 9>>, maxZoom |-> 11]

TileInputs ==
  { [kind |-> "tiles", root |-> <<x, y, z>>, maxZoom |-> m] :
      x \in 0..(Pow(2, MaxRootZoom) - 1), y \in 0..(Pow(2, MaxRootZoom) - 1),
      z \in 0..MaxRootZoom, m \in 0..(MaxRootZoom + MaxDepth) }

ValidTileInputs ==
  {in \in TileInputs : in.root[1] < Pow(2, in.root[3])
                       /\ in.root[2] < Pow(2, in.root[3])
                       /\ in.maxZoom <= in.root[3] + MaxDepth}
    \cup {ExampleRoot}

ZoomInputs == { [kind |-> "zoom", zoom |-> z] : z \in 0..MaxZoomLevel }

CallGetAllTiles ==
  /\ fCall = "none" /\ fIn.kind = "tiles"
  /\ fCall' = "getAllTiles"
  /\ fOut' = getAllTiles(fIn.root, fIn.maxZoom)
  /\ UNCHANGED <<fIn, schedVars, jobVars>>

\* const children = getAllTiles(...); children.sort(...)
CallSortChildren ==
  /\ fCall = "none" /\ fIn.kind = "tiles"
  /\ fCall' = "children"
  /\ fOut' = sortChildren(getAllTiles(fIn.root, fIn.maxZoom))
  /\ UNCHANGED <<fIn, schedVars, jobVars>>

CallRunZoomCoordinates ==
  /\ fCall = "none" /\ fIn.kind = "zoom"
  /\ fCall' = "runZoom"
  /\ fOut' = runZoomCoordinates(fIn.zoom)
  /\ UNCHANGED <<fIn, schedVars, jobVars>>

\* ---- createBlankTileImage ----

\* bounds of the blank-tile inputs
MaxTileSide == 2
MaxFrac == 2

TERRARIUM_MULT == 256
TERRARIUM_OFFSET == 32768
MAPBOX_OFFSET_DEFAULT == -10000
\* 1 / MAPBOX_INTERVAL_DEFAULT, with MAPBOX_INTERVAL_DEFAULT = 0.1
MapboxPerMetre == 10

\* Elevations are fixed-point numbers: an elevation e stands for
\* e.m + e.f / TicksPerMetre metres, which holds the half steps of both
\* encodings.  The whole metres are scaled apart from the fraction: they
\* scale to an integer, which Math.round leaves as it is.
TicksPerMetre == TERRARIUM_MULT * MapboxPerMetre

\* Math.round(num / den) for den > 0: the nearest integer, halves upwards.
MathRound(num, den) == (2 * num + den) \div (2 * den)

\* Mutant of Clamp: the value is not clamped.
ClampNone(v) == v

\* Math.max(0, Math.min(0xffffff, v))
Clamp(v) == IF v < 0 THEN 0 ELSE IF v > 16777215 THEN 16777215 ELSE v

\* (v >> 16) & 0xff, (v >> 8) & 0xff, v & 0xff
HighByte(v) == (v \div 65536) % 256
MidByte(v) == (v \div 256) % 256
LowByte(v) == v % 256

\* The value the terrarium branch scales the elevation to.
TerrariumScaled(e) ==
  (e.m + TERRARIUM_OFFSET) * TERRARIUM_MULT
    + MathRound(e.f * TERRARIUM_MULT, TicksPerMetre)

\* The value the mapbox branch scales the elevation to:
\* (elevationValue + MAPBOX_OFFSET_DEFAULT) * (1 / MAPBOX_INTERVAL_DEFAULT)
MapboxScaled(e) ==
  (e.m + MAPBOX_OFFSET_DEFAULT) * MapboxPerMetre
    + MathRound(e.f * MapboxPerMetre, TicksPerMetre)

\* createBlankTileImage up to the raw pixel buffer handed to the codec.
createBlankTileImage(width, height, e, encoding) ==
  LET v == Clamp(IF encoding = "terrarium" THEN TerrariumScaled(e)
                 ELSE MapboxScaled(e))
      r == HighByte(v)
      g == MidByte(v)
      b == LowByte(v)
  IN [r |-> r, g |-> g, b |-> b,
      rgbData |-> [i \in 1..(width * height * 3) |->
                     CASE (i - 1) % 3 = 0 -> r
                       [] (i - 1) % 3 = 1 -> g
                       [] OTHER -> b]]

\* Whole metres around which the elevations of the model are drawn: below
\* and above the range of either encoding, the offsets, sea level, a peak.
ElevationBases == {-40000, -32768, -10000, 0, 8848, 32767, 32768, 1667721,
                   1700000}

\* Fractions of a metre: ticks, terrarium half steps (1/512 m) and mapbox
\* half steps (0.05 m).
ElevationFractions ==
  {k * t : k \in (-MaxFrac)..MaxFrac, t \in {1, 5, 128}}

Elevations == [m : ElevationBases, f : ElevationFractions]

BlankInputs ==
  [kind : {"blank"}, elevation : Elevations,
   encoding : {"terrarium", "mapbox"}, side : 1..MaxTileSide]

CallCreateBlankTileImage ==
  /\ fCall = "none" /\ fIn.kind = "blank"
  /\ fCall' = "createBlankTileImage"
  /\ fOut' = createBlankTileImage(fIn.side, fIn.side, fIn.elevation,
                                  fIn.encoding)
  /\ UNCHANGED <<fIn, schedVars, jobVars>>

\* ---- getOptionsForZoom ----

\* bound of the zoom handed to getOptionsForZoom
MaxTileZoom == 17

\* let maxLessThanOrEqualTo = -Infinity: below every key
MinusInfinity == -1000000

\* contourOptions.thresholds of the pyramid job, as Object.entries gives
\* it: integer keys in ascending order.  num marks a value that is a
\* single number instead of a list.
DefaultThresholds ==
  << [z |-> 1, num |-> FALSE, value |-> <<600, 3000>>],
     [z |-> 4, num |-> FALSE, value |-> <<300, 1500>>],
     [z |-> 8, num |-> FALSE, value |-> <<150, 750>>],
     [z |-> 9, num |-> FALSE, value |-> <<80, 400>>],
     [z |-> 10, num |-> FALSE, value |-> <<40, 200>>],
     [z |-> 11, num |-> FALSE, value |-> <<20, 100>>],
     [z |-> 12, num |-> FALSE, value |-> <<10, 50>>],
     [z |-> 14, num |-> FALSE, value |-> <<5, 25>>],
     [z |-> 16, num |-> FALSE, value |-> <<1, 5>>] >>

\* Other threshold tables: one key, a single number as value, key 0.
OtherThresholds ==
  { << [z |-> 5, num |-> TRUE, value |-> <<100>>] >>,
    << [z |-> 0, num |-> FALSE, value |-> <<500>>],
       [z |-> 3, num |-> TRUE, value |-> <<50>>],
       [z |-> 7, num |-> FALSE, value |-> <<10, 20, 40>>] >>,
    << >> }

\* Mutant of AtOrBelow: a key equal to the zoom is not taken.
AtOrBelowStrict(z, zoom) == z < zoom

\* z <= zoom
AtOrBelow(z, zoom) == z <= zoom

\* typeof value === "number" ? [value] : value.  A single number is held
\* in the model as its one-element list already.
LevelsOf(entry) == IF entry.num THEN <<entry.value[1]>> ELSE entry.value

RECURSIVE ForEachThreshold(_, _, _, _, _)
\* Object.entries(thresholds).forEach(([zString, value]) => ...)
ForEachThreshold(entries, k, zoom, maxLessThanOrEqualTo, levels) ==
  IF k > Len(entries) THEN levels
  ELSE IF AtOrBelow(entries[k].z, zoom)
          /\ entries[k].z > maxLessThanOrEqualTo
       THEN ForEachThreshold(entries, k + 1, zoom, entries[k].z,
                             LevelsOf(entries[k]))
       ELSE ForEachThreshold(entries, k + 1, zoom, maxLessThanOrEqualTo,
                             levels)

\* getOptionsForZoom(options, zoom): the levels of the returned options.
getOptionsForZoom(thresholds, zoom) ==
  [levels |-> ForEachThreshold(thresholds, 1, zoom, MinusInfinity, <<>>)]

OptionInputs ==
  [kind : {"options"}, thresholds : {DefaultThresholds} \cup OtherThresholds,
   zoom : 0..MaxTileZoom]

CallGetOptionsForZoom ==
  /\ fCall = "none" /\ fIn.kind = "options"
  /\ fCall' = "getOptionsForZoom"
  /\ fOut' = getOptionsForZoom(fIn.thresholds, fIn.zoom)
  /\ UNCHANGED <<fIn, schedVars, jobVars>>

\* ---- openPMtiles: opening the archive named by the DEM URL ----
\* "pmtiles://https://h/a": the form the README gives for an archive over HTTP
RemoteArchiveUrl ==
  <<"p", "m", "t", "i", "l", "e", "s", ":", "/", "/",
    "h", "t", "t", "p", "s", ":", "/", "/", "h", "/", "a">>
\* "pmtiles://http://h/a"
PlainRemoteArchiveUrl ==
  <<"p", "m", "t", "i", "l", "e", "s", ":", "/", "/",
    "h", "t", "t", "p", ":", "/", "/", "h", "/", "a">>
\* "pmtiles://pmtiles://a": the scheme twice
NestedArchiveUrl ==
  <<"p", "m", "t", "i", "l", "e", "s", ":", "/", "/",
    "p", "m", "t", "i", "l", "e", "s", ":", "/", "/", "a">>

ArchiveUrls == {ArchiveUrl, ArchiveUrlUpper, RemoteArchiveUrl,
                PlainRemoteArchiveUrl, NestedArchiveUrl}

\* demUrl.replace(pmtilesTester, ""): the matched prefix is cut off.
StripArchiveScheme(url) ==
  IF pmtilesTester(url) THEN SubSeq(url, 11, Len(url)) ELSE url

\* The test openPMtiles makes to choose the remote source.
RemoteTest(path) == pmtilesTester(path)

\* openPMtiles(FilePath); exists is the answer of existsSync(FilePath).
openPMtiles(FilePath, exists) ==
  IF RemoteTest(FilePath)
  THEN [kind |-> "opened", source |-> "FetchSource", path |-> FilePath]
  ELSE IF ~exists
  THEN [kind |-> "raise", source |-> "none", path |-> FilePath]
  ELSE [kind |-> "opened", source |-> "PMTilesFileSource", path |-> FilePath]

OpenInputs == [kind : {"open"}, demUrl : ArchiveUrls, exists : BOOLEAN]

\* The archive branch of initializeSources.
CallOpenPMtiles ==
  /\ fCall = "none" /\ fIn.kind = "open"
  /\ fCall' = "openPMtiles"
  /\ fOut' = openPMtiles(StripArchiveScheme(fIn.demUrl), fIn.exists)
  /\ UNCHANGED <<fIn, schedVars, jobVars>>

\* ---- bboxToTiles: the root tiles of the bbox command ----
\* Largest zoom of the bounding boxes tried.
MaxBboxZoom == 1

\* Longitudes and latitudes are sampled on a grid already projected to
\* Web-Mercator: position 0 is the west (south) edge of the world and
\* GridSize the east (north) edge, with two samples per tile of the largest
\* zoom, so that a sample lies on a tile edge or in the middle of a tile.
GridSize == 2 * Pow(2, MaxBboxZoom)

\* Fractional tile column of a longitude sample, as a numerator over GridSize.
LonToTileX(lon, zoom) == lon * Pow(2, zoom)

\* Fractional tile row of a latitude sample: rows count from the north edge.
LatToTileY(lat, zoom) == (GridSize - lat) * Pow(2, zoom)

\* Math.floor of a fraction num / GridSize.
FloorTile(num) == num \div GridSize

\* Mutant of ClampTile: the range is not clamped to the tiles of the zoom.
ClampTileNone(t, zoom) == t

\* clamp to [0, 2^zoom)
ClampTile(t, zoom) ==
  IF t < 0 THEN 0
  ELSE IF t > Pow(2, zoom) - 1 THEN Pow(2, zoom) - 1
  ELSE t

\* bboxToTiles(minx, miny, maxx, maxy, zoom): the inclusive integer range of
\* the projected corners, as coordinates [zoom, x, y].
bboxToTiles(minx, miny, maxx, maxy, zoom) ==
  LET xMin == ClampTile(FloorTile(LonToTileX(minx, zoom)), zoom)
      xMax == ClampTile(FloorTile(LonToTileX(maxx, zoom)), zoom)
      yMin == ClampTile(FloorTile(LatToTileY(maxy, zoom)), zoom)
      yMax == ClampTile(FloorTile(LatToTileY(miny, zoom)), zoom)
  IN { <<zoom, x, y>> : x \in xMin..xMax, y \in yMin..yMax }

\* Boxes inside the world, a box shrunk to a point included.
BboxInputs ==
  UNION { { [kind |-> "bbox", minx |-> a, miny |-> b, maxx |-> c, maxy |-> d,
             outputMinZoom |-> z] :
              c \in a..GridSize, d \in b..GridSize, z \in 0..MaxBboxZoom } :
          a \in 0..GridSize, b \in 0..GridSize }

\* runBbox: const coordinates = bboxToTiles(minx, miny, maxx, maxy, outputMinZoom)
CallRunBboxCoordinates ==
  /\ fCall = "none" /\ fIn.kind = "bbox"
  /\ fCall' = "runBbox"
  /\ fOut' = bboxToTiles(fIn.minx, fIn.miny, fIn.maxx, fIn.maxy,
                         fIn.outputMinZoom)
  /\ UNCHANGED <<fIn, schedVars, jobVars>>

\* ---- the output paths of the jobs of two root tiles ----
\* Mutant of filePath: the zoom directory is left out of the path.
filePathNoZoom(v) == <<"outputDir", v[1], <<v[2], "pbf">> >>

\* processTile: path.join(outputDir, `${z}`, `${x}`) and `${y}.pbf`
filePath(v) == <<"outputDir", v[3], v[1], <<v[2], "pbf">> >>

\* The paths one job hands to processTile, in the order of its queue.
jobPaths(rootTile, outputMaxZoom) ==
  LET children == sortChildren(getAllTiles(rootTile, outputMaxZoom))
  IN [i \in 1..Len(children) |-> filePath(children[i])]

\* Two different coordinates [zoom, x, y] of one zoom, as runZoom builds them.
\* Levels below the roots in the jobs of two roots.
MaxPairDepth == 1

LevelCoordinates(zoom) ==
  {runZoomCoordinates(zoom)[k] : k \in 1..Len(runZoomCoordinates(zoom))}

RootPairInputs ==
  UNION { { [kind |-> "roots", first |-> a, second |-> b, maxZoom |-> m] :
              a \in LevelCoordinates(z), b \in LevelCoordinates(z),
              m \in 0..(z + MaxPairDepth) } : z \in 0..MaxRootZoom }

DistinctRootPairInputs == {in \in RootPairInputs : in.first # in.second}

\* The worker of a coordinate [zoom, x, y] runs with --x x --y y --z zoom.
CallJobPaths ==
  /\ fCall = "none" /\ fIn.kind = "roots"
  /\ fCall' = "jobPaths"
  /\ fOut' = [first |-> jobPaths(<<fIn.first[2], fIn.first[3], fIn.first[1]>>,
                                 fIn.maxZoom),
              second |-> jobPaths(<<fIn.second[2], fIn.second[3], fIn.second[1]>>,
                                  fIn.maxZoom)]
  /\ UNCHANGED <<fIn, schedVars, jobVars>>

\* ---- contourOptions of the job and the options of one tile ----
\* Mutant of Truthy: the increment is tested against undefined only.
TruthyUnlessNaN(n) == n # NaN

\* numIncrement ? ... : ...  (0 and NaN are falsy)
Truthy(n) == n # 0 /\ n # NaN

\* const contourOptions = { multiplier: 1, ...(numIncrement ? { levels } :
\* { thresholds }), contourLayer, elevationKey, levelKey, extent, buffer }
contourOptions(numIncrement) ==
  IF Truthy(numIncrement)
  THEN [multiplier |-> 1, levels |-> <<numIncrement>>,
        contourLayer |-> "contours", elevationKey |-> "ele",
        levelKey |-> "level", extent |-> 4096, buffer |-> 1]
  ELSE [multiplier |-> 1, thresholds |-> DefaultThresholds,
        contourLayer |-> "contours", elevationKey |-> "ele",
        levelKey |-> "level", extent |-> 4096, buffer |-> 1]

\* Mutant of tileOptions: the threshold table is passed on with the levels.
tileOptionsKeepThresholds(options, z) ==
  IF "thresholds" \in DOMAIN options
  THEN [k \in DOMAIN options \cup {"levels"} |->
          IF k = "levels" THEN getOptionsForZoom(options.thresholds, z).levels
          ELSE options[k]]
  ELSE options

\* processTile: tileOptions = contourOptions; if ("thresholds" in
\* contourOptions) tileOptions = getOptionsForZoom(contourOptions, z), which
\* returns { levels, ...rest }.
tileOptions(options, z) ==
  IF "thresholds" \in DOMAIN options
  THEN [k \in (DOMAIN options \ {"thresholds"}) \cup {"levels"} |->
          IF k = "levels" THEN getOptionsForZoom(options.thresholds, z).levels
          ELSE options[k]]
  ELSE options

\* numIncrement = Number(increment): NaN when --increment is not given.
TileOptionInputs ==
  [kind : {"tileOptions"}, numIncrement : {NaN, 0, 1, 50},
   zoom : 0..MaxTileZoom]

CallTileOptions ==
  /\ fCall = "none" /\ fIn.kind = "tileOptions"
  /\ fCall' = "tileOptions"
  /\ fOut' = tileOptions(contourOptions(fIn.numIncrement), fIn.zoom)
  /\ UNCHANGED <<fIn, schedVars, jobVars>>

\* ---- processQueue: the batches of one job ----
\* Longest descendant list tried.
MaxQueueLen == 51

\* Mutant of slice: the element at the end index is taken too.
sliceEndInclusive(seq, start, end) ==
  SubSeq(seq, start + 1, IF end + 1 > Len(seq) THEN Len(seq) ELSE end + 1)

\* Array.prototype.slice(start, end) for 0 <= start <= end: indices are
\* 0-based, the end is exclusive and is cut at the length of the array.
slice(seq, start, end) ==
  SubSeq(seq, start + 1, IF end > Len(seq) THEN Len(seq) ELSE end)

\* for (let i = 0; i < queue.length; i += batchSize): the batches in the
\* order in which they are handed to Promise.all(batch.map(processTile));
\* the await keeps one batch at a time in flight.
RECURSIVE QueueBatches(_, _, _)
QueueBatches(queue, i, batchSize) ==
  IF i < Len(queue)
  THEN <<slice(queue, i, i + batchSize)>>
         \o QueueBatches(queue, i + batchSize, batchSize)
  ELSE <<>>

\* processQueue(queue, batchSize = 25)
processQueue(queue) == QueueBatches(queue, 0, DefaultBatchSize)

\* The sorted descendant list, its tiles named by their position.
QueueInputs == [kind : {"queue"}, length : 0..MaxQueueLen]

CallProcessQueue ==
  /\ fCall = "none" /\ fIn.kind = "queue"
  /\ fCall' = "processQueue"
  /\ fOut' = processQueue([k \in 1..fIn.length |-> k])
  /\ UNCHANGED <<fIn, schedVars, jobVars>>

\* ---- the tile URLs handed to extractZXYFromUrlTrim ----
\* Largest z, x and y of the URLs written from coordinates.
MaxUrlCoord == 11

RECURSIVE NumberToString(_)
\* String(n) of a non-negative integer: its decimal digits.
NumberToString(n) ==
  IF n < 10 THEN <<DecimalDigits[n + 1]>>
  ELSE NumberToString(n \div 10) \o <<DecimalDigits[(n % 10) + 1]>>

\* demUrlPattern "/{z}/{x}/{y}" with the coordinates of a tile put in,
\* followed by an extension (empty for the pattern as it is).
tileUrl(z, x, y, extension) ==
  <<"/">> \o NumberToString(z) \o <<"/">> \o NumberToString(x) \o <<"/">> \o NumberToString(y)
    \o extension

\* no extension, ".png", ".pbf"
UrlExtensions == { <<>>, <<".", "p", "n", "g">>, <<".", "p", "b", "f">> }

\* URLs written from coordinates.
PatternUrlInputs ==
  { [kind |-> "url", fromTile |-> TRUE, z |-> z, x |-> x, y |-> y,
     url |-> tileUrl(z, x, y, e)] :
      z \in 0..MaxUrlCoord, x \in 0..MaxUrlCoord, y \in 0..MaxUrlCoord,
      e \in UrlExtensions }

\* Other URLs: "tile", "1/0/1", "/0/1", "//0/1", "/a/0/1", "/1/b/1",
\* "/1/0/c.png", "/1/0/.png", "/1a/0/1", "/1/0.5/1", "/1/0/1x.png",
\* "/tiles/1/0/1.png", "/ 1/0/1", "/-1/0/1"
OtherUrls ==
  { <<"t", "i", "l", "e">>,
    <<"1", "/", "0", "/", "1">>,
    <<"/", "0", "/", "1">>,
    <<"/", "/", "0", "/", "1">>,
    <<"/", "a", "/", "0", "/", "1">>,
    <<"/", "1", "/", "b", "/", "1">>,
    <<"/", "1", "/", "0", "/", "c", ".", "p", "n", "g">>,
    <<"/", "1", "/", "0", "/", ".", "p", "n", "g">>,
    <<"/", "1", "a", "/", "0", "/", "1">>,
    <<"/", "1", "/", "0", ".", "5", "/", "1">>,
    <<"/", "1", "/", "0", "/", "1", "x", ".", "p", "n", "g">>,
    <<"/", "t", "i", "l", "e", "s", "/", "1", "/", "0", "/", "1",
      ".", "p", "n", "g">>,
    <<"/", " ", "1", "/", "0", "/", "1">>,
    <<"/", "-", "1", "/", "0", "/", "1">> }

OtherUrlInputs ==
  { [kind |-> "url", fromTile |-> FALSE, z |-> 0, x |-> 0, y |-> 0,
     url |-> u] : u \in OtherUrls }

UrlInputs == PatternUrlInputs \cup OtherUrlInputs

\* const $zxy = extractZXYFromUrlTrim(url)
CallExtractZXYFromUrlTrim ==
  /\ fCall = "none" /\ fIn.kind = "url"
  /\ fCall' = "extractZXYFromUrlTrim"
  /\ fOut' = extractZXYFromUrlTrim(fIn.url)
  /\ UNCHANGED <<fIn, schedVars, jobVars>>

\* ---- inputs and steps of the calculation specification ----
CalcInputs == ValidTileInputs \cup ZoomInputs \cup BlankInputs
                \cup OptionInputs \cup OpenInputs
                \cup BboxInputs \cup DistinctRootPairInputs
                \cup TileOptionInputs \cup QueueInputs \cup UrlInputs

CalcInit ==
  /\ fIn \in CalcInputs
  /\ fCall = "none"
  /\ fOut = [kind |-> "none"]

CalcNext ==
  \/ CallGetAllTiles
  \/ CallSortChildren
  \/ CallRunZoomCoordinates
  \/ CallCreateBlankTileImage
  \/ CallGetOptionsForZoom
  \/ CallOpenPMtiles
  \/ CallRunBboxCoordinates
  \/ CallJobPaths
  \/ CallTileOptions
  \/ CallProcessQueue
  \/ CallExtractZXYFromUrlTrim

\* ---- the calculation specification ----
CalcStart == CalcInit /\ SchedOff /\ JobOff

CalcSpec == CalcStart /\ [][CalcNext]_vars

\* ---- the adapter specification ----
FetchStart == FetchInit /\ SchedOff /\ JobOff

FetchSpec == FetchStart /\ [][FetchNext]_vars

\* ---- the orchestrator specification ----
Next ==
  \/ RunPyramid
  \/ RunBatch
  \/ \E i \in Tiles, code \in {0, 1} : WorkerClose(i, code)
  \/ \E i \in Tiles : WorkerError(i)
  \/ TileThen
  \/ TileCatch
  \/ TileFinally
  \/ MainAdopt
  \/ MainResume
  \/ MainUnwind
  \/ MainCatch
  \/ LoopDrained

Init == SchedInit /\ FetchOff /\ JobOff

Spec == Init /\ [][Next]_vars

\* ---- the orchestrator with its scheduling (specification FairSpec) ----
\* Node runs a queued promise reaction as long as one is queued.
EventLoopStep ==
  \/ RunPyramid
  \/ RunBatch
  \/ TileThen
  \/ TileCatch
  \/ TileFinally
  \/ MainAdopt
  \/ MainResume
  \/ MainUnwind
  \/ MainCatch
  \/ LoopDrained

\* The worker process of tile i ends: its close or its error event arrives.
TaskFinishes(i) ==
  \/ \E code \in {0, 1} : WorkerClose(i, code)
  \/ WorkerError(i)

\* Every started task eventually finishes, and the event loop keeps running.
Fairness ==
  /\ WF_vars(EventLoopStep)
  /\ \A i \in Tiles : WF_vars(TaskFinishes(i))

FairSpec == Init /\ [][Next]_vars /\ Fairness

\* ---- the pyramid command end to end (specification PyramidSpec) ----
\* The orchestrator in pyramid mode together with the one job it spawns,
\* here a job of one descendant: the worker process of tile 1 is the
\* pyramid job, and the code of its close event is the job's exit code.

PyramidInit ==
  /\ SchedInit /\ mode = "pyramid"
  /\ JobInit /\ jTiles = 1
  /\ FetchOff

\* The job runs while its process is alive.
JobStep == worker[1] = "running" /\ JobNext

\* The job's process has ended: the close event carries its exit code.
JobExit ==
  /\ jExit \in {0, 1}
  /\ WorkerClose(1, jExit)

\* The job's process could not be started.
SpawnFails == jobPc = "init" /\ WorkerError(1)

PyramidNext ==
  \/ RunPyramid
  \/ JobStep
  \/ JobExit
  \/ SpawnFails
  \/ MainResume
  \/ MainUnwind
  \/ MainCatch

PyramidSpec == PyramidInit /\ [][PyramidNext]_vars

\* ======================================================================
\* Claims about the scheduler (specification Spec)
\* ======================================================================

\* Tiles that have been started and have not yet finished.
InFlight == {i \in Tiles : tile[i] = "pending"}

\* Tiles whose catch-handler has run (their rejection has been handled).
Caught(i) ==
  /\ mode # "pyramid"
  /\ tile[i] = "rejected"
  /\ \A n \in 1..Len(microtasks) :
        ~(microtasks[n].t = i /\ microtasks[n].k \in {"then", "catch"})

\* C1: with a concurrency limit N >= 1, in every reachable state the number
\* of tiles started and not yet finished, and the length of activeWorkers,
\* are at most N.
C1_BoundedConcurrency ==
  (mode # "pyramid" /\ maxProcesses >= 1) =>
     /\ Cardinality(InFlight) <= maxProcesses
     /\ Len(activeWorkers) <= maxProcesses

\* C1 witness: the limit binds: N >= 2 tiles are in flight, one is waiting.
C1_Witness ==
  /\ mode # "pyramid" /\ maxProcesses >= 2
  /\ Cardinality(InFlight) = maxProcesses
  /\ currentIndex < totalTiles

\* C2: the scheduler promise is resolved only when the cursor is exhausted,
\* activeWorkers is empty and every tile's promise has settled.
C2_ResolveOnlyWhenDrained ==
  outcome.state = "resolved" =>
     /\ currentIndex >= totalTiles
     /\ activeWorkers = <<>>
     /\ \A i \in 1..totalTiles : tile[i] \in {"fulfilled", "rejected"}

\* C2 witness: a run of several tiles has resolved.
C2_Witness ==
  outcome.state = "resolved" /\ totalTiles >= 2 /\ maxProcesses >= 2

\* C3 (as claimed): once a tile has failed, the cursor does not advance any
\* more, i.e. no tile that was unstarted is started afterwards.
C3_NoStartAfterFailure ==
  [][failOrder # <<>> => currentIndex' = currentIndex]_vars

\* C4: fail-fast.  As soon as the catch-handler of a failed tile has run the
\* scheduler promise is rejected with the error of the first failed tile; a
\* run with a failed tile is never resolved; once settled the promise never
\* changes.
C4_FailFast ==
  /\ [](\A i \in Tiles : Caught(i) =>
           outcome = [state |-> "rejected", error |-> Head(failOrder)])
  /\ []((mode # "pyramid" /\ failOrder # <<>>) => outcome.state # "resolved")
  /\ [][outcome.state # "pending" => outcome' = outcome]_vars

\* C4 witness: the promise is rejected while another tile is still running.
C4_Witness ==
  /\ outcome.state = "rejected"
  /\ outcome.error = Head(failOrder)
  /\ InFlight # {}

\* C5: metadata.json is written at most once, only after every root tile's
\* job has finished, and never when a job failed.
C5_MetadataBarrier ==
  /\ metadataWrites <= 1
  /\ metadataWrites = 1 =>
        /\ failOrder = <<>>
        /\ \A i \in 1..totalTiles : tile[i] = "fulfilled"
        /\ mode # "pyramid" => currentIndex = totalTiles /\ activeWorkers = <<>>

\* C5 witness: the manifest has been written after a run of several tiles.
C5_Witness ==
  metadataWrites = 1 /\ totalTiles >= 2 /\ mode = "zoom"

\* ======================================================================
\* Claims about the DEM source adapters (specification FetchSpec)
\* ======================================================================

Fetchers == {"pmtilesFetcher", "mbtilesFetcher"}

\* The requested tile is not present in the source.
NotPresent ==
  IF fIn.backend = "pmtiles" THEN fIn.archive # "tile"
  ELSE fIn.db \in {"errNotExist", "errNoSuchRow", "noData"}

Malformed == ZxyOfUrl[fIn.url].nul

C10_NoRowIsAbsent ==
  (/\ fCall \in {"getMBTilesTile", "getMBTilesTilePromisified"}
   /\ fIn.db \in {"errNotExist", "errNoSuchRow", "noData"})
     => fOut = [kind |-> "ok", data |-> FALSE, contentType |-> "undefined"]

\* C10 witness: the store answered "no such row" and the result is absent.
C10_Witness ==
  /\ fCall = "getMBTilesTile"
  /\ fIn.db = "errNoSuchRow"
  /\ fOut.kind = "ok" /\ ~fOut.data

\* ======================================================================
\* Claims about the pyramid job (specification JobSpec)
\* ======================================================================

Descendants == 1..jTiles

ContainedCauses == {"fetch", "decode", "engine"}

\* C6: a descendant whose destination file exists when processTile takes it
\* up is skipped: no source tile is fetched for it, the Contour Engine is
\* not invoked for it and its file is not written.  A job started with all
\* its destination files present therefore writes nothing and makes no
\* engine invocation.
C6_FileExistsSkip ==
  /\ \A i \in Descendants :
       (i \in jInitialFiles /\ pt[i].st # "queued") =>
         /\ pt[i].st = "skipped"
         /\ pt[i].fetches = 0 /\ pt[i].engine = 0 /\ pt[i].writes = 0
  /\ (jobPc # "off" /\ jInitialFiles = Descendants) =>
       /\ files = jInitialFiles
       /\ \A i \in Descendants : pt[i].engine = 0 /\ pt[i].writes = 0

\* C6 witness: a job over two descendants, both files present at the start,
\* has run to its end.
C6_Witness ==
  /\ jobPc = "done" /\ jTiles = 2 /\ jInitialFiles = Descendants
  /\ \A i \in Descendants : pt[i].st = "skipped"

\* C7: a tile whose source fetch, decode or contour step fails is logged
\* and left unwritten; the failure never ends the job: the job goes on
\* with the other tiles of the batch and with the later batches, and a job
\* that reaches the end of its queue has attempted every descendant and
\* exits with code 0.
C7_PerTileContainment ==
  /\ \A i \in Descendants :
       pt[i].cause \in ContainedCauses =>
         /\ pt[i].st = "failed" /\ i \in jLogged
         /\ pt[i].writes = 0
         /\ (i \notin jInitialFiles => i \notin files)
  /\ (jobPc = "failed") => jCrash \in {"open", "outputDir", "write"}
  /\ (jobPc = "done") =>
       /\ jExit = 0
       /\ \A i \in Descendants : Settled(i)
  /\ (jobPc \in {"ready", "batch"}) => ENABLED JobNext

\* C7 witness: the first descendant failed in a contained step, the second
\* was written afterwards, and the job exited with code 0.
C7_Witness ==
  /\ jobPc = "done" /\ jExit = 0 /\ jTiles = 2
  /\ pt[1].cause \in ContainedCauses
  /\ pt[2].st = "written"

\* C8 (as stated): for every backend, a fetched source tile that the source
\* does not have is replaced by a synthesized blank tile, so the tile is
\* not skipped for its fetch and the job is not failed by it.
C8_AbsentSourceGivesBlank ==
  \A i \in Descendants :
    (pt[i].fetches > 0 /\ pt[i].src \in AbsentAnswers) =>
      /\ pt[i].blank
      /\ pt[i].cause # "fetch"

\* ======================================================================
\* Claims about the calculations (specification CalcSpec)
\* ======================================================================

ElementsOf(list) == {list[i] : i \in 1..Len(list)}

\* The root and every tile below it down to maxZoom, in closed form: at
\* zoom z the tiles whose x and y lie in the root's span of 2^(z - root z).
SubtreeOf(root, maxZoom) ==
  UNION { LET span == Pow(2, z - root[3])
          IN { <<x, y, z>> :
                 x \in (root[1] * span)..((root[1] + 1) * span - 1),
                 y \in (root[2] * span)..((root[2] + 1) * span - 1) } :
          z \in root[3]..maxZoom }

RECURSIVE GeometricSum(_)
\* 4^0 + 4^1 + ... + 4^n
GeometricSum(n) == IF n < 0 THEN 0 ELSE Pow(4, n) + GeometricSum(n - 1)

\* C11: for a valid root and maxZoom >= the root's zoom, getAllTiles
\* returns exactly the root and its quadtree descendants down to maxZoom:
\* none missing, none twice, none deeper than maxZoom, every x and y within
\* 0..2^z - 1, so 4^0 + ... + 4^(maxZoom - z) tiles (21 for 9/272/179 and
\* maxZoom 11).
C11_GetAllTilesIsSubtree ==
  (fCall = "getAllTiles" /\ fIn.maxZoom >= fIn.root[3]) =>
    /\ ElementsOf(fOut) = SubtreeOf(fIn.root, fIn.maxZoom)
    /\ Len(fOut) = Cardinality(ElementsOf(fOut))
    /\ Len(fOut) = GeometricSum(fIn.maxZoom - fIn.root[3])
    /\ \A t \in ElementsOf(fOut) :
         /\ t[3] <= fIn.maxZoom
         /\ 0 <= t[1] /\ t[1] < Pow(2, t[3])
         /\ 0 <= t[2] /\ t[2] < Pow(2, t[3])
    /\ (fIn = ExampleRoot) => Len(fOut) = 21

\* C11 witness: the documented example has been expanded to its 21 tiles.
C11_Witness ==
  fCall = "getAllTiles" /\ fIn = ExampleRoot /\ Len(fOut) = 21

\* (z, x, y) of a comes before (z, x, y) of b.
Before(a, b) ==
  \/ a[3] < b[3]
  \/ a[3] = b[3] /\ a[1] < b[1]
  \/ a[3] = b[3] /\ a[1] = b[1] /\ a[2] < b[2]

\* C12: the list a pyramid job processes holds the tiles of getAllTiles in
\* ascending order of zoom, then x, then y; the order is fixed by the root
\* and maxZoom alone.
C12_SortedByZoomXY ==
  (fCall = "children") =>
    /\ \A i, j \in 1..Len(fOut) : i < j => Before(fOut[i], fOut[j])
    /\ Len(fOut) = Len(getAllTiles(fIn.root, fIn.maxZoom))
    /\ ElementsOf(fOut) = ElementsOf(getAllTiles(fIn.root, fIn.maxZoom))

\* C12 witness: a list of two levels below the root that the sort had to
\* reorder.
C12_Witness ==
  /\ fCall = "children" /\ fIn.maxZoom = fIn.root[3] + 2
  /\ fOut # getAllTiles(fIn.root, fIn.maxZoom)

\* C13: the coordinate list of runZoom holds every (zoom, x, y) with
\* 0 <= x, y < 2^zoom exactly once and nothing else: 4^zoom elements.
C13_RunZoomCoversLevel ==
  (fCall = "runZoom") =>
    /\ Len(fOut) = Pow(4, fIn.zoom)
    /\ Cardinality(ElementsOf(fOut)) = Len(fOut)
    /\ ElementsOf(fOut) =
         { <<fIn.zoom, x, y>> : x \in 0..(Pow(2, fIn.zoom) - 1),
                                y \in 0..(Pow(2, fIn.zoom) - 1) }

\* C13 witness: the 16 coordinates of zoom 2 have been built.
C13_Witness == fCall = "runZoom" /\ fIn.zoom = 2 /\ Len(fOut) = 16

\* The 24-bit value the three bytes of a blank tile stand for.
ChannelValue(out) == out.r * 65536 + out.g * 256 + out.b

Abs(n) == IF n < 0 THEN -n ELSE n

\* The decoded elevation minus the elevation e, in ticks, is within `step`
\* ticks.  d is the decoded value minus the exactly scaled whole metres, in
\* steps of the encoding; ticksPerStep is the size of one step.
WithinStep(d, ticksPerStep, e) ==
  /\ Abs(d) <= 1000
  /\ Abs(d * ticksPerStep - e.f) <= ticksPerStep

\* C14 (as stated): for every elevation and both encodings the triple of
\* createBlankTileImage, decoded with the same encoding (terrarium:
\* (R*65536 + G*256 + B) / 256 - 32768; mapbox: -10000 + (R*65536 + G*256
\* + B) * 0.1), gives the elevation back within one quantization step
\* (1/256 m for terrarium, 0.1 m for mapbox).
C14_BlankTileRoundTrip ==
  (fCall = "createBlankTileImage") =>
    IF fIn.encoding = "terrarium"
    THEN WithinStep(ChannelValue(fOut) - (fIn.elevation.m + 32768) * 256,
                    TicksPerMetre \div 256, fIn.elevation)
    ELSE WithinStep(ChannelValue(fOut) - (fIn.elevation.m + 10000) * 10,
                    TicksPerMetre \div 10, fIn.elevation)

\* round((elevation + 10000) * 10) clamped to 0..0xFFFFFF
MapboxChannelValue(e) ==
  LET v == (e.m + 10000) * 10 + MathRound(e.f * 10, TicksPerMetre)
  IN IF v < 0 THEN 0 ELSE IF v > 16777215 THEN 16777215 ELSE v

\* C15 (as stated): for the mapbox encoding the channel value is
\* round((elevation + 10000) * 10) clamped to 0..0xFFFFFF, split into the
\* high, middle and low byte; elevation 0 gives 100000.
C15_MapboxChannelValue ==
  (fCall = "createBlankTileImage" /\ fIn.encoding = "mapbox") =>
    /\ ChannelValue(fOut) = MapboxChannelValue(fIn.elevation)
    /\ fOut.r = MapboxChannelValue(fIn.elevation) \div 65536
    /\ fOut.g = (MapboxChannelValue(fIn.elevation) \div 256) % 256
    /\ fOut.b = MapboxChannelValue(fIn.elevation) % 256
    /\ (fIn.elevation = [m |-> 0, f |-> 0]) => ChannelValue(fOut) = 100000

\* round((elevation + 32768) * 256) clamped to 0..0xFFFFFF
TerrariumChannelValue(e) ==
  LET v == (e.m + 32768) * 256 + MathRound(e.f * 256, TicksPerMetre)
  IN IF v < 0 THEN 0 ELSE IF v > 16777215 THEN 16777215 ELSE v

\* C16: for the terrarium encoding v = round((elevation + 32768) * 256)
\* clamped to 0..0xFFFFFF, r = v >> 16, g = (v >> 8) & 0xFF, b = v & 0xFF;
\* each byte is in 0..255, r*65536 + g*256 + b = v, and every pixel of the
\* tile holds this triple.
C16_TerrariumBytes ==
  (fCall = "createBlankTileImage" /\ fIn.encoding = "terrarium") =>
    LET v == TerrariumChannelValue(fIn.elevation)
    IN /\ fOut.r = v \div 65536
       /\ fOut.g = (v \div 256) % 256
       /\ fOut.b = v % 256
       /\ {fOut.r, fOut.g, fOut.b} \subseteq 0..255
       /\ ChannelValue(fOut) = v
       /\ Len(fOut.rgbData) = fIn.side * fIn.side * 3
       /\ \A p \in 0..(fIn.side * fIn.side - 1) :
            /\ fOut.rgbData[3 * p + 1] = fOut.r
            /\ fOut.rgbData[3 * p + 2] = fOut.g
            /\ fOut.rgbData[3 * p + 3] = fOut.b

\* C16 witness: a four-pixel terrarium tile for an elevation above the
\* range of the encoding, clamped to 0xFFFFFF.
C16_Witness ==
  /\ fCall = "createBlankTileImage" /\ fIn.encoding = "terrarium"
  /\ fIn.side = 2 /\ fIn.elevation.m = 1700000
  /\ ChannelValue(fOut) = 16777215

\* The entry of a threshold table with the largest key <= zoom.
LargestKeyAtOrBelow(thresholds, zoom) ==
  CHOOSE k \in 1..Len(thresholds) :
    /\ thresholds[k].z <= zoom
    /\ \A j \in 1..Len(thresholds) :
         thresholds[j].z <= zoom => thresholds[j].z <= thresholds[k].z

\* C17: getOptionsForZoom gives the increments of the largest threshold
\* key <= the zoom: the key itself on an exact match, the lower key between
\* two keys, the highest key above all keys; the default table gives
\* [40, 200] at zoom 10 and [1, 5] at zoom 16 and above.
C17_LargestKeyAtOrBelow ==
  (fCall = "getOptionsForZoom") =>
    /\ (\E k \in 1..Len(fIn.thresholds) : fIn.thresholds[k].z <= fIn.zoom) =>
         fOut.levels =
           fIn.thresholds[LargestKeyAtOrBelow(fIn.thresholds, fIn.zoom)].value
    /\ (fIn.thresholds = DefaultThresholds /\ fIn.zoom = 10) =>
         fOut.levels = <<40, 200>>
    /\ (fIn.thresholds = DefaultThresholds /\ fIn.zoom >= 16) =>
         fOut.levels = <<1, 5>>

\* C17 witness: the default table has been resolved for a zoom above its
\* highest key.
C17_Witness ==
  /\ fCall = "getOptionsForZoom" /\ fIn.thresholds = DefaultThresholds
  /\ fIn.zoom = 17 /\ fOut.levels = <<1, 5>>

\* ======================================================================
\* Claims about invalid input (specification Spec)
\* ======================================================================

\* C18 (as stated): with an encoding other than "terrarium" or "mapbox",
\* in every mode, no worker process is spawned, no manifest is written and
\* the invocation does not end with exit code 0.
C18_InvalidEncodingRejected ==
  (mode # "off" /\ ~encodingOk) =>
    /\ \A i \in Tiles : worker[i] = "none"
    /\ metadataWrites = 0
    /\ exitCode # 0

\* ======================================================================
\* Claims about the source of a job (specification JobSpec)
\* ======================================================================

\* C20: the backend is a total function of the DEM URL, selected once per
\* job: the archive prefix in any case selects the archive backend,
\* otherwise the tile-database prefix in any case selects the tile-database
\* backend, otherwise the URL-template backend; once selected the backend
\* does not change.
C20_BackendSelection ==
  /\ [](jobPc \notin {"off", "init"} =>
          jBackend = IF jDemUrl \in {ArchiveUrl, ArchiveUrlUpper}
                     THEN "pmtiles"
                     ELSE IF jDemUrl \in {DatabaseUrl, DatabaseUrlUpper}
                     THEN "mbtiles"
                     ELSE "url")
  /\ [][jBackend # "unselected" => jBackend' = jBackend]_vars

\* C20 witness: a job on an archive URL written with capitals has run to
\* its end on the archive backend.
C20_Witness ==
  jobPc = "done" /\ jDemUrl = ArchiveUrlUpper /\ jBackend = "pmtiles"

\* ======================================================================
\* Claims about the pyramid command end to end (specification PyramidSpec)
\* ======================================================================

\* C19: when the DEM source of the job cannot be opened, the job ends
\* failed with a non-zero exit code and has processed no tile; the
\* scheduler takes the job as a failed task, the invocation exits with a
\* non-zero code and no manifest is written.
C19_SourceOpenFailure ==
  (jCrash = "open") =>
    /\ jobPc = "failed" /\ jExit = 1
    /\ \A i \in JobTiles : pt[i].st = "queued"
    /\ files = jInitialFiles
    /\ metadataWrites = 0
    /\ (worker[1] = "closed") => (tile[1] = "rejected" /\ failOrder = <<1>>)
    /\ mainPc # "done"
    /\ (mainPc = "exited") => exitCode = 1
    /\ (mainPc = "awaiting") => ENABLED PyramidNext

\* C19 witness: the archive of the job could not be opened and the
\* invocation has exited with code 1 without a manifest.
C19_Witness ==
  /\ jCrash = "open" /\ jBackend = "pmtiles"
  /\ mainPc = "exited" /\ exitCode = 1 /\ metadataWrites = 0

\* ---- C21 ----
\* An http:// or https:// URL.
IsHttpUrl(path) ==
  \/ StartsWithIgnoreCase(path, <<"h", "t", "t", "p", ":", "/", "/">>)
  \/ StartsWithIgnoreCase(path, <<"h", "t", "t", "p", "s", ":", "/", "/">>)

\* C21: after the job has stripped the scheme prefix of an archive DEM URL,
\* openPMtiles opens a remaining http(s) URL as a remote source read by byte
\* range and any other remaining path as a local file read by offset/length;
\* the open fails only for a missing local path.
C21_OpenPMtilesRemoteOrLocal ==
  (fCall = "openPMtiles") =>
    LET path == StripArchiveScheme(fIn.demUrl) IN
      /\ IsHttpUrl(path) =>
           fOut.kind = "opened" /\ fOut.source = "FetchSource"
      /\ ~IsHttpUrl(path) /\ fIn.exists =>
           fOut.kind = "opened" /\ fOut.source = "PMTilesFileSource"
      /\ (fOut.kind = "raise") => ~IsHttpUrl(path) /\ ~fIn.exists

\* ---- C22 ----
\* The footprint of tile [zoom, x, y] and the box of the input have a point in
\* common (both closed); positions are compared as numerators over 2^zoom.
FootprintMeetsBox(t, in) ==
  LET n == Pow(2, t[1])
  IN /\ t[2] * GridSize <= in.maxx * n
     /\ in.minx * n <= (t[2] + 1) * GridSize
     /\ t[3] * GridSize <= (GridSize - in.miny) * n
     /\ (GridSize - in.maxy) * n <= (t[3] + 1) * GridSize

\* The box of the input is one point.
IsPointBox(in) == in.minx = in.maxx /\ in.miny = in.maxy

\* C22: for every valid bounding box and zoom the root tiles returned by
\* bboxToTiles lie in [0, 2^zoom) on both axes, the footprint of each
\* intersects the box, and a box shrunk to a point gives exactly the one tile
\* holding the point.
C22_BboxTilesCoverBox ==
  (fCall = "runBbox") =>
    /\ \A t \in fOut :
         /\ t[1] = fIn.outputMinZoom
         /\ t[2] \in 0..(Pow(2, fIn.outputMinZoom) - 1)
         /\ t[3] \in 0..(Pow(2, fIn.outputMinZoom) - 1)
         /\ FootprintMeetsBox(t, fIn)
    /\ fOut # {}
    /\ IsPointBox(fIn) => Cardinality(fOut) = 1

\* C22 witness: a point on the east edge of the world at zoom 1 gave the one
\* tile of the last column.
C22_Witness ==
  /\ fCall = "runBbox" /\ fIn.outputMinZoom = 1
  /\ IsPointBox(fIn) /\ fIn.minx = GridSize /\ fIn.miny = 1
  /\ fOut = {<<1, 1, 1>>}

\* ---- C23 ----
\* C23: the jobs of two different root tiles of one zoom never write the same
\* output path, and one job hands each path to processTile once.
C23_WritersDisjoint ==
  (fCall = "jobPaths") =>
    /\ ElementsOf(fOut.first) \cap ElementsOf(fOut.second) = {}
    /\ Cardinality(ElementsOf(fOut.first)) = Len(fOut.first)
    /\ Cardinality(ElementsOf(fOut.second)) = Len(fOut.second)

\* C23 witness: two neighbouring roots of zoom 1, each with the 5 paths of
\* its subtree down to zoom 2.
C23_Witness ==
  /\ fCall = "jobPaths"
  /\ fIn.first = <<1, 0, 0>> /\ fIn.second = <<1, 1, 0>> /\ fIn.maxZoom = 2
  /\ Len(fOut.first) = 5 /\ Len(fOut.second) = 5

\* ---- C24 ----
\* The scheduler has been called with a non-empty list and a limit N >= 1.
SchedulerRunning ==
  /\ mode # "pyramid" /\ mainPc = "awaiting"
  /\ totalTiles >= 1 /\ maxProcesses >= 1

\* C24: for a non-empty task list and a concurrency limit N >= 1, if every
\* started task eventually finishes, processTilesInParallel eventually
\* settles: its promise is resolved or rejected.
C24_SchedulerSettles == SchedulerRunning ~> (outcome.state # "pending")

\* C24 witness: a run of more tiles than slots has settled after all of its
\* tiles were started.
C24_Witness ==
  /\ mode # "pyramid" /\ totalTiles > maxProcesses /\ maxProcesses >= 1
  /\ currentIndex = totalTiles
  /\ outcome.state = "resolved"

\* ---- C25 ----
\* Control is back with the event loop: the scheduler runs, no reaction is
\* queued, the next thing to happen is a task event.
BetweenTaskEvents ==
  /\ mode # "pyramid" /\ mainPc = "awaiting" /\ microtasks = <<>>
  /\ totalTiles >= 1 /\ maxProcesses >= 1

\* C25: the scheduler is work-conserving.  Between task events either no
\* unstarted task remains or exactly N tasks are in flight; and the
\* completion of a task, success or failure, removes it from activeWorkers
\* and starts a replacement at once if an unstarted task remains.
C25_WorkConserving ==
  /\ [](BetweenTaskEvents =>
          \/ currentIndex >= totalTiles
          \/ /\ Cardinality(InFlight) = maxProcesses
             /\ Len(activeWorkers) = maxProcesses)
  /\ [][\A i \in Tiles :
          (mode # "pyramid" /\ maxProcesses >= 1
             /\ i \notin finalized /\ i \in finalized') =>
            /\ \A n \in 1..Len(activeWorkers') : activeWorkers'[n] # i
            /\ currentIndex < totalTiles => currentIndex' = currentIndex + 1
            /\ currentIndex < totalTiles =>
                 activeWorkers'[Len(activeWorkers')] = currentIndex + 1]_vars

\* C25 witness: a task has completed, its replacement runs, the limit is
\* reached again and a further task is still unstarted.
C25_Witness ==
  /\ BetweenTaskEvents
  /\ finalized # {} /\ currentIndex < totalTiles
  /\ Cardinality(InFlight) = maxProcesses

\* ---- C26 ----
\* The number of the batch tile i belongs to, counted from 0.
BatchOf(i) == (i - 1) \div jBatchSize

\* Tile i has finished: written, skipped or failed.
Finished(i) == pt[i].st \in {"written", "skipped", "failed"}

\* C26: within a job no tile of a later batch is started before every tile of
\* each earlier batch has finished (succeeded, been skipped or failed).
C26_BatchesSequential ==
  \A i \in 1..jTiles, j \in 1..jTiles :
    (BatchOf(i) < BatchOf(j) /\ pt[j].st # "queued") => Finished(i)

\* C26 witness: the second batch is running after the first has finished.
C26_Witness ==
  /\ jTiles = 2 /\ jBatchSize = SmallBatch
  /\ Finished(1) /\ pt[2].st \in {"fetching", "contouring", "mkdir"}

\* ---- C27 ----
\* The state of the pyramid job: SourceReady once the adapter is open,
\* Writing from the first batch on (the descendants are expanded on the way
\* from one to the other), Done and Failed at the end.
JobState ==
  CASE jobPc = "init" -> "Initialized"
    [] jobPc = "ready" /\ jI = 0 -> "SourceReady"
    [] jobPc = "ready" /\ jI > 0 -> "Writing"
    [] jobPc = "batch" -> "Writing"
    [] jobPc = "done" -> "Done"
    [] jobPc = "failed" -> "Failed"
    [] OTHER -> "off"

\* The steps of the state order; Failed can follow every state but Done.
JobStateOrder ==
  { <<"Initialized", "SourceReady">>, <<"SourceReady", "Writing">>,
    <<"Writing", "Writing">>, <<"SourceReady", "SourceReady">>,
    <<"SourceReady", "Done">>, <<"Writing", "Done">>,
    <<"Initialized", "Failed">>, <<"SourceReady", "Failed">>,
    <<"Writing", "Failed">> }

\* C27: a pyramid job moves through Initialized, SourceReady, Expanding,
\* Writing and then Done or Failed in this order only; the adapter is
\* opened once, in the step that leaves Initialized; no tile is fetched or
\* processed before the adapter is open; once opened the adapter is never
\* opened again or replaced.
C27_JobStateOrder ==
  /\ [][(<<JobState, JobState'>> \in JobStateOrder)]_vars
  /\ [][(jBackend = "unselected") # (jBackend' = "unselected") <=>
          (JobState = "Initialized" /\ JobState' # "Initialized")]_vars
  /\ [][jBackend # "unselected" => jBackend' = jBackend]_vars
  /\ [](\A i \in JobTiles :
          (pt[i].st # "queued" \/ pt[i].fetches > 0) =>
             (jBackend # "unselected" /\ JobState # "Initialized"))

\* C27 witness: a job that opened its archive, wrote in two batches and is
\* done.
C27_Witness ==
  /\ JobState = "Done" /\ jBackend = "pmtiles"
  /\ jTiles = 2 /\ jBatchSize = SmallBatch
  /\ pt[1].st = "written" /\ pt[2].st = "written"

\* ---- C28 ----
\* C28 (as claimed): a pyramid job ends Failed, with a non-zero exit code,
\* only because the adapter could not be opened or the output directory
\* could not be created; no fetch, decode, contour generation, directory
\* creation or file write of a single descendant ends the job Failed.
C28_FailedOnlyForJobLevelCauses ==
  (jobPc = "failed") =>
    /\ jExit # 0
    /\ jCrash \in {"open", "outputDir"}
    /\ \A i \in JobTiles : pt[i].cause # "write"

\* ---- C29 ----
\* The increments the default threshold table gives for a zoom.
DefaultIncrements(zoom) ==
  IF \E k \in 1..Len(DefaultThresholds) : DefaultThresholds[k].z <= zoom
  THEN DefaultThresholds[LargestKeyAtOrBelow(DefaultThresholds, zoom)].value
  ELSE <<>>

\* C29: with a non-zero increment every tile, at every zoom, is generated
\* with the list [increment]; with increment 0 or none, with the increments
\* the default threshold table gives for the tile's own zoom; layer name,
\* field names, extent and buffer are the same for every tile.
C29_TileContourOptions ==
  (fCall = "tileOptions") =>
    /\ fIn.numIncrement \notin {0, NaN} => fOut.levels = <<fIn.numIncrement>>
    /\ fIn.numIncrement \in {0, NaN} =>
         fOut.levels = DefaultIncrements(fIn.zoom)
    /\ fOut.contourLayer = "contours" /\ fOut.elevationKey = "ele"
    /\ fOut.levelKey = "level" /\ fOut.extent = 4096 /\ fOut.buffer = 1
    /\ fOut.multiplier = 1

\* C29 witness: without an increment a tile of zoom 12 got [10, 50].
C29_Witness ==
  /\ fCall = "tileOptions" /\ fIn.numIncrement = 0 /\ fIn.zoom = 12
  /\ fOut.levels = <<10, 50>> /\ fOut.extent = 4096

\* ---- C30 ----
\* The image format the source of the input declares, "none" without one:
\* the tile type of the archive header (0 is "unknown"), or the format of
\* the tile database's metadata.
DeclaredFormat(in) ==
  IF in.backend = "pmtiles"
  THEN (IF in.tileType = 0 THEN "none"
        ELSE Subtype(getPmtilesMimeTypeFromTypeNum(in.tileType)))
  ELSE in.dbFormat

\* The fetcher was asked for a tile the opened source does not have.
AbsentTileAsked ==
  /\ fCall \in Fetchers /\ fIn.init
  /\ ~ZxyOfUrl[fIn.url].nul
  /\ IF fIn.backend = "pmtiles" THEN fIn.archive = "noEntry"
     ELSE fIn.db \in {"errNotExist", "errNoSuchRow", "noData"}

\* C30 (as claimed): for an absent source tile the blank tile is encoded in
\* the image format the source declares, and in the configured
\* blankTileFormat only when the source declares none; it is returned with
\* the MIME type of the format it was encoded in.
C30_BlankTileInDeclaredFormat ==
  AbsentTileAsked =>
    /\ (fOut.kind = "blank" /\ DeclaredFormat(fIn) # "none") =>
         fOut.format = DeclaredFormat(fIn)
    /\ DeclaredFormat(fIn) = "none" =>
         fOut.kind = "blank" /\ fOut.format = fIn.blankTileFormat
    /\ fOut.kind = "blank" => Subtype(fOut.mimeType) = fOut.format

\* ---- C31 ----
\* The tasks that have finished: their promise is fulfilled or rejected.
FinishedTasks == {i \in Tiles : tile[i] \in {"fulfilled", "rejected"}}

\* C31: with N >= 1 the tasks are started in list order and each at most
\* once; 0 <= completedCount <= currentIndex <= totalTiles; and the number
\* of tasks in flight is currentIndex minus the number of finished tasks.
C31_SchedulerCounters ==
  /\ []((mode \notin {"pyramid", "off"} /\ maxProcesses >= 1) =>
          /\ 0 <= completedCount /\ completedCount <= currentIndex
          /\ currentIndex <= totalTiles
          /\ \A i \in Tiles : (tile[i] # "none") <=> (i <= currentIndex)
          /\ Cardinality(InFlight) =
               currentIndex - Cardinality(FinishedTasks)
          /\ Len(activeWorkers) = currentIndex - Cardinality(finalized))
  /\ [][(mode \notin {"pyramid", "off"} /\ maxProcesses >= 1) =>
          /\ currentIndex' >= currentIndex
          /\ \A i \in Tiles :
               /\ (tile[i] = "none" /\ tile'[i] # "none") =>
                    (currentIndex < i /\ i <= currentIndex')
               /\ tile[i] \in {"fulfilled", "rejected"} => tile'[i] = tile[i]
               /\ worker[i] # "none" =>
                    (worker'[i] # "none" /\ tile'[i] # "none")]_vars

\* C31 witness: three tasks under a limit of two; two have finished and are
\* counted as completed, the third is in flight.
C31_Witness ==
  /\ mode = "zoom" /\ maxProcesses = 2 /\ totalTiles = 3
  /\ currentIndex = 3 /\ Cardinality(FinishedTasks) = 2
  /\ Cardinality(InFlight) = 1 /\ completedCount = 2

\* ---- C32 ----
\* The scheduler was called with a non-empty list and a limit below 1.
CalledWithoutSlots ==
  /\ mode \in {"zoom", "bbox"} /\ totalTiles >= 1 /\ maxProcesses < 1
  /\ mainPc # "start"

\* C32 (as claimed): with a non-empty list and a limit below 1 no task is
\* started, the scheduler never settles, the manifest is never written and
\* the invocation does not finish.
C32_NeverFinishes ==
  CalledWithoutSlots =>
    /\ currentIndex = 0 /\ \A i \in Tiles : tile[i] = "none"
    /\ outcome.state = "pending"
    /\ metadataWrites = 0
    /\ mainPc # "exited"

\* C32 (amended): with a non-empty list and a limit of 0 or less no task is
\* started, the scheduler never settles and the manifest is never written;
\* nothing is left to run, so the process ends, with exit code 0 and
\* without a report of completion or failure.
C32_NeverSettlesExitsClean ==
  CalledWithoutSlots =>
    /\ currentIndex = 0 /\ activeWorkers = <<>>
    /\ \A i \in Tiles : tile[i] = "none" /\ worker[i] = "none"
    /\ outcome.state = "pending" /\ failOrder = <<>>
    /\ metadataWrites = 0 /\ completedCount = 0
    /\ mainPc \in {"awaiting", "exited"}
    /\ (mainPc = "awaiting") => ENABLED LoopDrained
    /\ (mainPc = "exited") => exitCode = 0

\* C32 witness: a zoom run with limit 0 has ended with nothing started.
C32_Witness ==
  /\ CalledWithoutSlots /\ maxProcesses = 0 /\ totalTiles >= 2
  /\ mainPc = "exited" /\ exitCode = 0 /\ outcome.state = "pending"

\* ---- C33 ----
\* C33: with an empty coordinate list processTilesInParallel returns at once
\* without starting a task, for every concurrency limit, and the caller
\* then writes the manifest.
C33_EmptyListCompletes ==
  /\ []((mode \in {"zoom", "bbox"} /\ totalTiles = 0) =>
          /\ currentIndex = 0 /\ activeWorkers = <<>>
          /\ \A i \in Tiles : tile[i] = "none" /\ worker[i] = "none"
          /\ failOrder = <<>>
          /\ mainPc \in {"start", "awaiting", "done"}
          /\ (mainPc = "awaiting") => microtasks = <<[k |-> "resume", t |-> 0]>>
          /\ (mainPc = "done") => (metadataWrites = 1 /\ exitCode = 0)
          /\ (mainPc # "done") => metadataWrites = 0)
  /\ [][(mode \in {"zoom", "bbox"} /\ totalTiles = 0 /\ mainPc = "awaiting")
          => mainPc' = "done"]_vars

\* C33 witness: an empty list under a limit of 0 ended with the manifest.
C33_Witness ==
  /\ mode = "bbox" /\ totalTiles = 0 /\ maxProcesses = 0
  /\ mainPc = "done" /\ metadataWrites = 1

\* ---- C34 ----
\* The promise of the root-tile task has been settled.
TaskSettled(i) == tile[i] \in {"fulfilled", "rejected"}

RECURSIVE Flatten(_)
Flatten(batches) ==
  IF batches = <<>> THEN <<>> ELSE Head(batches) \o Flatten(Tail(batches))

\* Math.ceil(n / d) for n >= 0, d > 0.
CeilDiv(n, d) == (n + d - 1) \div d

\* C35: processQueue cuts the sorted descendant list into consecutive
\* batches of 25 tiles, the last one possibly shorter: the batches put
\* together are the list itself (every tile in exactly one batch, handed
\* to processTile once), there are ceil(n / 25) of them, and a batch, which
\* is all that is in flight at a time, never has more than 25 tiles.
C35_BatchesPartitionQueue ==
  (fCall = "processQueue") =>
    LET n == fIn.length
    IN /\ Flatten(fOut) = [k \in 1..n |-> k]
       /\ Len(fOut) = CeilDiv(n, 25)
       /\ \A b \in 1..Len(fOut) :
            /\ Len(fOut[b]) >= 1 /\ Len(fOut[b]) <= 25
            /\ (b < Len(fOut)) => Len(fOut[b]) = 25
       /\ (n > 0) => Len(fOut[Len(fOut)]) = n - 25 * (Len(fOut) - 1)

\* C35 witness: 51 descendants were cut into two full batches and one
\* batch of a single tile.
C35_Witness ==
  /\ fCall = "processQueue" /\ fIn.length = 51
  /\ Len(fOut) = 3 /\ Len(fOut[2]) = 25 /\ fOut[3] = <<51>>

\* ---- C36 ----
\* C36: getAllTiles with a maxZoom that is not deeper than the root (equal
\* to the root's zoom or above it in the pyramid) returns the root alone.
C36_RootAloneAtOrBelowMaxZoom ==
  (fCall = "getAllTiles" /\ fIn.maxZoom <= fIn.root[3]) =>
    fOut = <<fIn.root>>

\* C36 witness: a root of zoom 1 was expanded with maxZoom 0.
C36_Witness ==
  /\ fCall = "getAllTiles" /\ fIn.root[3] = 1 /\ fIn.maxZoom = 0
  /\ fOut = <<fIn.root>>

\* ---- C37 ----
\* C37: for a zoom below every key of the threshold table (zoom 0 with the
\* default table) getOptionsForZoom gives an empty list of increments; for
\* every zoom the options it returns have no thresholds entry and every
\* other option of the job as it was.
C37_OptionsBelowEveryKey ==
  /\ (fCall = "getOptionsForZoom"
        /\ \A k \in 1..Len(fIn.thresholds) : fIn.thresholds[k].z > fIn.zoom) =>
       fOut.levels = <<>>
  /\ (fCall = "tileOptions" /\ fIn.numIncrement \in {0, NaN}) =>
       LET options == contourOptions(fIn.numIncrement)
       IN /\ (fIn.zoom = 0) => fOut.levels = <<>>
          /\ "thresholds" \in DOMAIN options
          /\ DOMAIN fOut = (DOMAIN options \ {"thresholds"}) \cup {"levels"}
          /\ \A k \in DOMAIN options \ {"thresholds"} : fOut[k] = options[k]

\* C37 witness: the options of a tile of zoom 0 were taken from the
\* default table: no increments, no thresholds entry, the rest in place.
C37_Witness ==
  /\ fCall = "tileOptions" /\ fIn.numIncrement = NaN /\ fIn.zoom = 0
  /\ fOut.levels = <<>> /\ "thresholds" \notin DOMAIN fOut
  /\ fOut.buffer = 1

\* ---- C38 ----
\* A segment that is a number written out: optional white space and sign,
\* then digits with at most one decimal point among them, and nothing else.
IsNumeric(segment) ==
  LET t    == TrimStart(segment)
      body == IF t # <<>> /\ Head(t) \in {"+", "-"} THEN Tail(t) ELSE t
  IN /\ \E i \in 1..Len(body) : IsDigit(body[i])
     /\ \A i \in 1..Len(body) : IsDigit(body[i]) \/ body[i] = "."
     /\ Cardinality({i \in 1..Len(body) : body[i] = "."}) <= 1

\* The url has a z, x or y segment (the extension of y set aside) that is
\* not a number.
HasNonNumericSegment(url) ==
  LET segments == split(url, "/")
      n == Len(segments)
  IN n >= 3 /\ \/ ~IsNumeric(segments[n - 2])
               \/ ~IsNumeric(segments[n - 1])
               \/ ~IsNumeric(StripExtension(segments[n]))

\* C38 (as claimed): a URL written from the pattern "/z/x/y", with or
\* without an extension, is parsed back to exactly z, x and y; a URL with
\* fewer than four segments, or with a z, x or y segment that is not a
\* number, gives null.
C38_UrlRoundTripAndNull ==
  (fCall = "extractZXYFromUrlTrim") =>
    /\ fIn.fromTile =>
         fOut = [nul |-> FALSE, z |-> fIn.z, x |-> fIn.x, y |-> fIn.y]
    /\ (Len(split(fIn.url, "/")) < 4 \/ HasNonNumericSegment(fIn.url)) =>
         fOut = Null

====
